---- MODULE Spec2Model ----
(***************************************************************************)
(* State-machine model of nyx: the Interface controller (paging, pause,    *)
(* daemon shutdown), the event loop draw_loop and the sqlite-backed Cache  *)
(* of src/nyx/__init__.py, and the curses Panel of src/interface/util.py.  *)
(***************************************************************************)
EXTENDS Integers, Sequences, FiniteSets, TLC

VARIABLES
  page_panels,   \* Interface._page_panels: the pages, each a list of panel names
  constructed,   \* TRUE when Interface.__init__ returned, FALSE when it raised
  page,          \* Interface._page
  paused,        \* Interface._paused
  quit,          \* Interface._quit
  visible,       \* per panel: the flag last given to panel.set_visible
  calls,         \* the calls the last operation made on panels, in order
  lastOp,        \* the last operation, its argument, outcome and the state it started in
  prevOp         \* the operation before the last one and the set_paused calls it made

ifaceVars == <<page_panels, constructed, page, paused, quit, visible, calls, lastOp, prevOp>>

VARIABLES
  daemons,        \* the panels that are DaemonPanel instances
  started,        \* the daemon panels Interface.__init__ called start() on
  stop_requested, \* the daemon panels stop() was called on
  running,        \* the daemon panels whose polling loop has not exited
  worker_state,   \* the halt thread: "unstarted", "ready", "joining" (inside a join()), "finished"
  worker_pc,      \* the number of calls halt_panels has made
  halt_log,       \* the stop() and join() calls made so far, with the context that made them
  caller,         \* the caller of halt(): "idle", "returned" (holds the handle), "waited"
  at_return       \* what the caller could observe at the moment halt() returned

haltVars == <<daemons, started, stop_requested, running, worker_state, worker_pc,
              halt_log, caller, at_return>>

VARIABLES
  env,              \* what Cache.__init__ finds: the data directory, the stored file, what fails
  cache_state,      \* "unconstructed", "ready" (Cache.__init__ returned), "aborted" (it raised)
  persistent,       \* TRUE when self._conn is the file, FALSE when it is ':memory:'
  schema_version,   \* the row of table schema in the open store (NoVersion: none)
  relays_committed, \* table relays as committed
  relays_working,   \* table relays as the connection sees it (with uncommitted statements)
  conn_lock,        \* the thread that owns self._conn_lock, or NoThread
  pc,               \* per thread: where it is in write(), record_relay or a lookup
  args,             \* per thread: the arguments of the _query or lookup it is in
  err,              \* per thread: the field named by the ValueError in flight, or "none"
  cursor,           \* per thread: the row the cursor of its SELECT holds (a set of at most one)
  scope_muts,       \* per thread: the rows its write() scope has written, the last one per fingerprint
  last_ok,          \* per fingerprint: the row of the last record_relay that returned normally
  kept,             \* per fingerprint: the same, without the rows a rollback has undone
  kept_committed    \* kept, as of the last commit

cacheVars == <<env, cache_state, persistent, schema_version, relays_committed, relays_working,
               conn_lock, pc, args, err, cursor, scope_muts,
               last_ok, kept, kept_committed>>

VARIABLES
  confirm_quit,     \* CONFIG['confirm_quit']
  loop_pc,          \* draw_loop: "idle" (not running), "cond", "redraw", "input", "dispatch",
                    \* "confirm" (inside the quit prompt), "exited"
  key,              \* draw_loop's key ("none" before the first one)
  next_key,         \* draw_loop's next_key ("none" for None)
  confirmation_key, \* the key the quit prompt returned in this iteration ("none": no prompt answered)
  exit_by,          \* how the loop ended: "none", "flag" (the while condition), "break"
  heights,          \* what get_height() returned for each panel of the redraw just made
  offered           \* the keybinding.handle(key) calls made in this iteration, in order

loopVars == <<confirm_quit, loop_pc, key, next_key, confirmation_key, exit_by, heights, offered>>

VARIABLES
  scr,          \* stdscr.getmaxyx(): the container's [y, x]
  win,          \* Panel.win: NoWin, or the subwindow's actual top, height and width
  startY,       \* Panel.startY
  height,       \* Panel.height: the preferred height, -1 if infinite
  isDisplaced,  \* Panel.isDisplaced
  maxY,         \* Panel.maxY
  maxX,         \* Panel.maxX
  panel_op      \* the last call on the Panel: its arguments, what it returned, the
                \* state it started in and the calls it made on the subwindow

panelVars == <<scr, win, startY, height, isDisplaced, maxY, maxX, panel_op>>

VARIABLES
  fn_in,       \* the arguments of the call of a function that is looked at
  fn_out,      \* what that call returned or raised
  CACHE,       \* the global CACHE: 0 for None, or the number of the Cache object
  getter_pc,   \* per thread: where it is in cache()
  instances,   \* the number of Cache objects constructed so far
  made,        \* per thread: the Cache object it has constructed and not yet assigned
  got          \* per thread: the Cache object cache() returned to it (0: none yet)

utilVars == <<fn_in, fn_out, CACHE, getter_pc, instances, made, got>>

vars == <<ifaceVars, haltVars, cacheVars, loopVars, panelVars, utilVars>>

(***************************************************************************)
(* Bounds                                                                  *)
(***************************************************************************)
\* set_page is tried with every page number in -1 .. MaxPageArg
MaxPageArg == 6

\* at most this many of the interface's panels are daemon panels
MaxDaemons == 3

PageArgs == (0 - 1) .. MaxPageArg

\* get_height() returns a height in 0 .. MaxHeight
MaxHeight == 2

\* the container is at most MaxScreen rows high
MaxScreen == 2

(***************************************************************************)
(* Interface: construction                                                 *)
(***************************************************************************)
\* the CONFIG keys that enable panels
ShowFlags == {"show_graph", "show_log", "show_connections", "show_config",
              "show_torrc", "show_interpreter"}

Opt(cfg, flag, x) == IF flag \in cfg THEN <<x>> ELSE <<>>

\* the pages Interface.__init__ builds for the enabled CONFIG keys
BuildPages(cfg) ==
  LET first_page_panels == Opt(cfg, "show_graph", "graph") \o Opt(cfg, "show_log", "log")
  IN  (IF first_page_panels # <<>> THEN <<first_page_panels>> ELSE <<>>)
        \o Opt(cfg, "show_connections", <<"connection">>)
        \o Opt(cfg, "show_config", <<"config">>)
        \o Opt(cfg, "show_torrc", <<"torrc">>)
        \o Opt(cfg, "show_interpreter", <<"interpreter">>)

RECURSIVE Flatten(_)
Flatten(pp) == IF pp = <<>> THEN <<>> ELSE Head(pp) \o Flatten(Tail(pp))

\* Interface.__iter__: the header, then every page's panels in order
Iter(pp) == <<"header">> \o Flatten(pp)

Range(s) == {s[i] : i \in DOMAIN s}

AllPanels(pp) == Range(Iter(pp))

page_count == Len(page_panels)

\* Interface.page_panels(page_number): the header followed by that page's
\* panels (page numbers count from 0, sequences from 1)
PanelsOfPage(pp, n) == <<"header">> \o pp[n + 1]

get_page == page

is_paused == paused

\* a call on a panel: set_visible(flag), set_paused(flag), redraw() or
\* redraw(force = False, top = top)
Call(p, m, f) == [panel |-> p, method |-> m, flag |-> f, top |-> 0]

DrawCall(p, t) == [panel |-> p, method |-> "redraw", flag |-> FALSE, top |-> t]

Op(name, n, b, r) ==
  [op |-> name, n |-> n, b |-> b, raised |-> r,
   pre_page |-> page, pre_paused |-> paused, pre_visible |-> visible]

IsSetPaused(c) == c.method = "set_paused"

Tag(o) == [op |-> o.op, b |-> o.b, pre_paused |-> o.pre_paused,
           paused_calls |-> SelectSeq(calls, IsSetPaused)]

NoOp == [op |-> "none", b |-> FALSE, pre_paused |-> FALSE, paused_calls |-> <<>>]

\* the flags "for panel in self: panel.set_visible(panel in visible_panels)"
\* leaves on the panels when page pg is shown
VisibleFor(pp, pg) ==
  [p \in AllPanels(pp) |-> p \in Range(PanelsOfPage(pp, pg))]

\* the set_visible calls of that loop, in iteration order
SetVisibleCalls(pp, pg) ==
  [i \in DOMAIN Iter(pp) |->
     Call(Iter(pp)[i], "set_visible", Iter(pp)[i] \in Range(PanelsOfPage(pp, pg)))]

\* Interface.__init__ for the enabled CONFIG keys cfg.  With no page enabled
\* self.page_panels() raises IndexError before any panel is made visible; the
\* header's flag then keeps whatever the panel class starts with.
InterfaceInit(cfg) ==
  LET pp == BuildPages(cfg) IN
  /\ page_panels = pp
  /\ page = 0
  /\ paused = FALSE
  /\ quit = FALSE
  /\ prevOp = NoOp
  /\ IF Len(pp) = 0
       THEN /\ constructed = FALSE
            /\ visible \in [AllPanels(pp) -> BOOLEAN]
            /\ calls = <<>>
            /\ lastOp = [op |-> "init", n |-> 0, b |-> FALSE, raised |-> "IndexError",
                         pre_page |-> 0, pre_paused |-> FALSE, pre_visible |-> visible]
       ELSE /\ constructed = TRUE
            /\ visible = VisibleFor(pp, 0)
            /\ calls = SetVisibleCalls(pp, 0)
            /\ lastOp = [op |-> "init", n |-> 0, b |-> FALSE, raised |-> "none",
                         pre_page |-> 0, pre_paused |-> FALSE, pre_visible |-> visible]

\* the part of Interface.__init__ that starts the daemon panels ds, and a halt
\* thread that does not exist yet
HaltInit(ds) ==
  /\ daemons = ds
  /\ started = ds
  /\ running = ds
  /\ stop_requested = {}
  /\ worker_state = "unstarted"
  /\ worker_pc = 0
  /\ halt_log = <<>>
  /\ caller = "idle"
  /\ at_return = [running |-> {}, log |-> <<>>]


NoCall == [fn |-> "none"]

\* the threads that call cache()
Getters == {"t1", "t2", "t3"}

\* "CACHE = None" at import, and no thread in cache() yet
GetterIdle ==
  /\ CACHE = 0
  /\ getter_pc = [t \in Getters |-> "idle"]
  /\ instances = 0
  /\ made = [t \in Getters |-> 0]
  /\ got = [t \in Getters |-> 0]

\* no function called yet, and cache() not called yet
UtilIdle ==
  /\ fn_in = NoCall
  /\ fn_out = NoCall
  /\ GetterIdle

\* draw_loop not running
LoopIdle ==
  /\ confirm_quit = TRUE
  /\ loop_pc = "idle"
  /\ key = "none"
  /\ next_key = "none"
  /\ confirmation_key = "none"
  /\ exit_by = "none"
  /\ heights = <<>>
  /\ offered = <<>>

NoWin == [top |-> 0 - 1, height |-> 0 - 1, width |-> 0 - 1]

\* what a Panel keeps between calls
PanelState == [win |-> win, startY |-> startY, isDisplaced |-> isDisplaced,
               maxY |-> maxY, maxX |-> maxX]

NoPanelState == [win |-> NoWin, startY |-> 0 - 1, isDisplaced |-> FALSE,
                 maxY |-> 0 - 1, maxX |-> 0 - 1]

\* a call on the Panel: its name and two arguments, what it returned
\* (recreate), whether curses raised, the Panel before it (kept for recreate)
\* and the calls it made on the subwindow
PanelOp(name, a1, a2, ret, raised, wcalls) ==
  [op |-> name, a1 |-> a1, a2 |-> a2, ret |-> ret, raised |-> raised,
   pre |-> IF name = "recreate" THEN PanelState ELSE NoPanelState,
   wcalls |-> wcalls]

NoPanelOp ==
  [op |-> "none", a1 |-> 0, a2 |-> 0, ret |-> FALSE, raised |-> FALSE,
   pre |-> NoPanelState, wcalls |-> <<>>]

\* Panel.__init__(lock, height) with preferred height h, in a container of
\* size s
Panel_init(s, h) ==
  /\ scr = s
  /\ win = NoWin
  /\ startY = 0 - 1
  /\ height = h
  /\ isDisplaced = FALSE
  /\ maxY = 0 - 1
  /\ maxX = 0 - 1
  /\ panel_op = NoPanelOp

\* the container's width
ScreenCols == 3

PanelIdle == Panel_init([y |-> MaxScreen, x |-> ScreenCols], 0 - 1)

(***************************************************************************)
(* Interface: paging                                                       *)
(***************************************************************************)
\* set_page's range check
PageInvalid(n) == n < 0 \/ n >= page_count

\* a set_page that clamps a bad page number instead of rejecting it
set_page_clamp(page_number) ==
  LET n == IF page_number < 0 THEN 0
           ELSE IF page_number >= page_count THEN page_count - 1 ELSE page_number IN
  /\ constructed
  /\ lastOp' = Op("set_page", page_number, FALSE, "none")
  /\ prevOp' = Tag(lastOp)
  /\ page' = n
  /\ visible' = VisibleFor(page_panels, n)
  /\ calls' = IF n # page THEN <<Call("header", "redraw", FALSE)>> \o SetVisibleCalls(page_panels, n)
              ELSE <<>>
  /\ UNCHANGED <<page_panels, constructed, paused, quit>>
  /\ UNCHANGED <<haltVars, cacheVars, panelVars, utilVars>>

\* a set_page that updates the flags first and redraws the header afterwards
set_page_swapped(page_number) ==
  /\ constructed
  /\ prevOp' = Tag(lastOp)
  /\ IF PageInvalid(page_number)
       THEN /\ lastOp' = Op("set_page", page_number, FALSE, "ValueError")
            /\ calls' = <<>>
            /\ UNCHANGED <<page, visible>>
       ELSE /\ lastOp' = Op("set_page", page_number, FALSE, "none")
            /\ IF page_number # page
                 THEN /\ page' = page_number
                      /\ visible' = VisibleFor(page_panels, page_number)
                      /\ calls' = SetVisibleCalls(page_panels, page_number)
                                    \o <<Call("header", "redraw", FALSE)>>
                 ELSE /\ calls' = <<>>
                      /\ UNCHANGED <<page, visible>>
  /\ UNCHANGED <<page_panels, constructed, paused, quit>>
  /\ UNCHANGED <<haltVars, cacheVars, panelVars, utilVars>>

\* Interface.set_page(page_number)
set_page(page_number) ==
  /\ constructed
  /\ prevOp' = Tag(lastOp)
  /\ IF PageInvalid(page_number)
       THEN /\ lastOp' = Op("set_page", page_number, FALSE, "ValueError")
            /\ calls' = <<>>
            /\ UNCHANGED <<page, visible>>
       ELSE /\ lastOp' = Op("set_page", page_number, FALSE, "none")
            /\ IF page_number # page
                 THEN /\ page' = page_number
                      /\ visible' = VisibleFor(page_panels, page_number)
                      /\ calls' = <<Call("header", "redraw", FALSE)>>
                                    \o SetVisibleCalls(page_panels, page_number)
                 ELSE /\ calls' = <<>>
                      /\ UNCHANGED <<page, visible>>
  /\ UNCHANGED <<page_panels, constructed, paused, quit>>
  /\ UNCHANGED <<haltVars, cacheVars, panelVars, utilVars>>

(***************************************************************************)
(* Interface: pausing                                                      *)
(***************************************************************************)
\* "for panel in self: panel.set_paused(is_pause)"
SetPausedCalls(pp, b) ==
  [i \in DOMAIN Iter(pp) |-> Call(Iter(pp)[i], "set_paused", b)]

\* "for panel in self.page_panels(): panel.redraw()"
RedrawCalls(pp, pg) ==
  [i \in DOMAIN PanelsOfPage(pp, pg) |-> Call(PanelsOfPage(pp, pg)[i], "redraw", FALSE)]

\* a set_paused without the "is_pause != self._paused" test
set_paused_always(is_pause) ==
  /\ constructed
  /\ lastOp' = Op("set_paused", 0, is_pause, "none")
  /\ prevOp' = Tag(lastOp)
  /\ paused' = is_pause
  /\ calls' = SetPausedCalls(page_panels, is_pause) \o RedrawCalls(page_panels, page)
  /\ UNCHANGED <<page_panels, constructed, page, quit, visible>>
  /\ UNCHANGED <<haltVars, cacheVars, panelVars, utilVars>>

\* Interface.set_paused(is_pause)
set_paused(is_pause) ==
  /\ constructed
  /\ lastOp' = Op("set_paused", 0, is_pause, "none")
  /\ prevOp' = Tag(lastOp)
  /\ IF is_pause # paused
       THEN /\ paused' = is_pause
            /\ calls' = SetPausedCalls(page_panels, is_pause) \o RedrawCalls(page_panels, page)
       ELSE /\ calls' = <<>>
            /\ UNCHANGED paused
  /\ UNCHANGED <<page_panels, constructed, page, quit, visible>>
  /\ UNCHANGED <<haltVars, cacheVars, panelVars, utilVars>>

(***************************************************************************)
(* Interface: redraw                                                       *)
(***************************************************************************)
\* a pass that adds the height of a panel before it draws the panel
RECURSIVE RedrawPassEarly(_, _, _)
RedrawPassEarly(ps, h, occupied) ==
  IF ps = <<>> THEN <<>>
  ELSE <<DrawCall(Head(ps), occupied + Head(h))>>
         \o RedrawPassEarly(Tail(ps), Tail(h), occupied + Head(h))

\* the loop of Interface.redraw over the panels ps that get_height() reports
\* the heights h for: "panel.redraw(force = False, top = occupied)", then
\* "occupied += panel.get_height()"
RECURSIVE RedrawPass(_, _, _)
RedrawPass(ps, h, occupied) ==
  IF ps = <<>> THEN <<>>
  ELSE <<DrawCall(Head(ps), occupied)>>
         \o RedrawPass(Tail(ps), Tail(h), occupied + Head(h))

\* Interface.redraw(), the panels of the page reporting the heights h
redraw(h) ==
  /\ constructed
  /\ lastOp' = Op("redraw", 0, FALSE, "none")
  /\ prevOp' = Tag(lastOp)
  /\ calls' = RedrawPass(PanelsOfPage(page_panels, page), h, 0)
  /\ heights' = h
  /\ UNCHANGED <<page_panels, constructed, page, paused, quit, visible>>
  /\ UNCHANGED <<haltVars, cacheVars, panelVars, utilVars>>

\* Interface.quit()
Interface_quit ==
  /\ constructed
  /\ loop_pc # "idle"
  /\ quit' = TRUE
  /\ UNCHANGED <<page_panels, constructed, page, paused, visible, calls, lastOp, prevOp>>
  /\ UNCHANGED <<haltVars, cacheVars, loopVars, panelVars, utilVars>>

(***************************************************************************)
(* draw_loop                                                               *)
(***************************************************************************)
\* the keys nyx.curses.key_input can return; "timeout" is the key it returns
\* when redraw_rate seconds pass, "a" and "b" are keys that panels bind
LoopKeys == {"right", "left", "p", "m", "q", "x", "h", "a", "b", "timeout"}

\* panel.key_handlers(): the keys the panel's handlers are bound to, in order
key_handlers(p) ==
  CASE p = "header"      -> <<"a">>
    [] p = "graph"       -> <<"a", "b">>
    [] p = "log"         -> <<"b">>
    [] p = "connection"  -> <<"b", "a">>
    [] p = "config"      -> <<"a">>
    [] p = "torrc"       -> <<>>
    [] p = "interpreter" -> <<"b">>

\* keybinding.handle(key): the handler acts on the key it is bound to
handle(binding, k) == binding = k

\* "for panel in interface.page_panels(): for keybinding in
\* panel.key_handlers(): keybinding.handle(key)"
RECURSIVE Offer(_, _)
Offer(ps, k) ==
  IF ps = <<>> THEN <<>>
  ELSE [i \in DOMAIN key_handlers(Head(ps)) |->
          [panel |-> Head(ps), binding |-> key_handlers(Head(ps))[i],
           consumed |-> handle(key_handlers(Head(ps))[i], k)]]
         \o Offer(Tail(ps), k)

\* "(interface.get_page() + 1) % interface.page_count()"
NextPage(p, n) == (p + 1) % n

\* the remainder that takes the sign of the dividend
PrevPageTruncated(p, n) == IF p - 1 < 0 THEN 0 - ((1 - p) % n) ELSE (p - 1) % n

\* "(interface.get_page() - 1) % interface.page_count()": Python's % takes the
\* sign of the divisor, as % does here
PrevPage(p, n) == (p - 1) % n

\* a loop that never looks at interface._quit
loop_cond_ignoring_quit ==
  /\ loop_pc = "cond"
  /\ loop_pc' = "redraw" /\ UNCHANGED exit_by
  /\ confirmation_key' = "none"
  /\ offered' = <<>>
  /\ UNCHANGED <<confirm_quit, key, next_key, heights>>
  /\ UNCHANGED <<ifaceVars, haltVars, cacheVars, panelVars, utilVars>>

\* "while not interface._quit"
loop_cond ==
  /\ loop_pc = "cond"
  /\ IF quit THEN loop_pc' = "exited" /\ exit_by' = "flag"
             ELSE loop_pc' = "redraw" /\ UNCHANGED exit_by
  /\ confirmation_key' = "none"
  /\ offered' = <<>>
  /\ UNCHANGED <<confirm_quit, key, next_key, heights>>
  /\ UNCHANGED <<ifaceVars, haltVars, cacheVars, panelVars, utilVars>>

\* "interface.redraw()"
loop_redraw ==
  /\ loop_pc = "redraw"
  /\ \E h \in [DOMAIN PanelsOfPage(page_panels, page) -> 0 .. MaxHeight] : redraw(h)
  /\ loop_pc' = "input"
  /\ UNCHANGED <<confirm_quit, key, next_key, confirmation_key, exit_by, offered>>

\* Interface.redraw() when the redraw of the k-th panel of the page raises:
\* nothing in the loop of Interface.redraw catches it, so the panels after
\* the k-th are not reached
redraw_raises(h, k) ==
  /\ constructed
  /\ lastOp' = Op("redraw", k, FALSE, "Exception")
  /\ prevOp' = Tag(lastOp)
  /\ calls' = SubSeq(RedrawPass(PanelsOfPage(page_panels, page), h, 0), 1, k)
  /\ heights' = h
  /\ UNCHANGED <<page_panels, constructed, page, paused, quit, visible>>
  /\ UNCHANGED <<haltVars, cacheVars, panelVars, utilVars>>

\* "interface.redraw()" raises: nothing in draw_loop catches it either, and
\* the exception ends the loop
loop_redraw_raises ==
  /\ loop_pc = "redraw"
  /\ \E h \in [DOMAIN PanelsOfPage(page_panels, page) -> 0 .. MaxHeight] :
       \E k \in DOMAIN PanelsOfPage(page_panels, page) : redraw_raises(h, k)
  /\ loop_pc' = "crashed"
  /\ exit_by' = "exception"
  /\ UNCHANGED <<confirm_quit, key, next_key, confirmation_key, offered>>

\* "if next_key: key, next_key = next_key, None
\*  else: key = nyx.curses.key_input(CONFIG['redraw_rate'])"
loop_input ==
  /\ loop_pc = "input"
  /\ IF next_key # "none"
       THEN key' = next_key
       ELSE key' \in LoopKeys
  /\ next_key' = "none"
  /\ loop_pc' = "dispatch"
  /\ heights' = <<>>
  /\ lastOp' = Op("key_input", 0, FALSE, "none")
  /\ prevOp' = Tag(lastOp)
  /\ calls' = <<>>
  /\ UNCHANGED <<page_panels, constructed, page, paused, quit, visible>>
  /\ UNCHANGED <<confirm_quit, confirmation_key, exit_by, offered>>
  /\ UNCHANGED <<haltVars, cacheVars, panelVars, utilVars>>

\* "if key.match('right'): interface.set_page(...)"
key_right ==
  /\ loop_pc = "dispatch" /\ key = "right"
  /\ set_page(NextPage(get_page, page_count))
  /\ loop_pc' = "cond"
  /\ UNCHANGED <<confirm_quit, key, next_key, confirmation_key, exit_by, heights, offered>>

\* "elif key.match('left'): interface.set_page(...)"
key_left ==
  /\ loop_pc = "dispatch" /\ key = "left"
  /\ set_page(PrevPage(get_page, page_count))
  /\ loop_pc' = "cond"
  /\ UNCHANGED <<confirm_quit, key, next_key, confirmation_key, exit_by, heights, offered>>

\* "elif key.match('p'): interface.set_paused(not interface.is_paused())"
key_p ==
  /\ loop_pc = "dispatch" /\ key = "p"
  /\ set_paused(~is_paused)
  /\ loop_pc' = "cond"
  /\ UNCHANGED <<confirm_quit, key, next_key, confirmation_key, exit_by, heights, offered>>

\* "elif key.match('m'): nyx.menu.show_menu()", the menu closed with no choice
key_m ==
  /\ loop_pc = "dispatch" /\ key = "m"
  /\ loop_pc' = "cond"
  /\ UNCHANGED <<confirm_quit, key, next_key, confirmation_key, exit_by, heights, offered>>
  /\ UNCHANGED <<ifaceVars, haltVars, cacheVars, panelVars, utilVars>>

\* "elif key.match('q')": the prompt is shown when CONFIG['confirm_quit'] is
\* set, and the loop breaks at once when it is not
key_q ==
  /\ loop_pc = "dispatch" /\ key = "q"
  /\ IF confirm_quit
       THEN loop_pc' = "confirm" /\ UNCHANGED exit_by
       ELSE loop_pc' = "exited" /\ exit_by' = "break"
  /\ UNCHANGED <<confirm_quit, key, next_key, confirmation_key, heights, offered>>
  /\ UNCHANGED <<ifaceVars, haltVars, cacheVars, panelVars, utilVars>>

\* a prompt that takes any key pressed as the confirmation
quit_confirm_any_key ==
  /\ loop_pc = "confirm"
  /\ \E ck \in LoopKeys :
       /\ confirmation_key' = ck
       /\ IF ck # "timeout"
            THEN loop_pc' = "exited" /\ exit_by' = "break"
            ELSE loop_pc' = "cond" /\ UNCHANGED exit_by
  /\ UNCHANGED <<confirm_quit, key, next_key, heights, offered>>
  /\ UNCHANGED <<ifaceVars, haltVars, cacheVars, panelVars, utilVars>>

\* "confirmation_key = show_message(..., max_wait = 30)
\*  if not confirmation_key.match('q'): continue
\*  break"
quit_confirm ==
  /\ loop_pc = "confirm"
  /\ \E ck \in LoopKeys :
       /\ confirmation_key' = ck
       /\ IF ck = "q"
            THEN loop_pc' = "exited" /\ exit_by' = "break"
            ELSE loop_pc' = "cond" /\ UNCHANGED exit_by
  /\ UNCHANGED <<confirm_quit, key, next_key, heights, offered>>
  /\ UNCHANGED <<ifaceVars, haltVars, cacheVars, panelVars, utilVars>>

\* "elif key.match('x')": the prompt and, when confirmed, the RELOAD signal
\* to tor; neither touches the interface
key_x ==
  /\ loop_pc = "dispatch" /\ key = "x"
  /\ loop_pc' = "cond"
  /\ UNCHANGED <<confirm_quit, key, next_key, confirmation_key, exit_by, heights, offered>>
  /\ UNCHANGED <<ifaceVars, haltVars, cacheVars, panelVars, utilVars>>

\* "elif key.match('h'): next_key = nyx.popups.show_help()"
key_h ==
  /\ loop_pc = "dispatch" /\ key = "h"
  /\ next_key' \in LoopKeys \cup {"none"}
  /\ loop_pc' = "cond"
  /\ UNCHANGED <<confirm_quit, key, confirmation_key, exit_by, heights, offered>>
  /\ UNCHANGED <<ifaceVars, haltVars, cacheVars, panelVars, utilVars>>

\* the else branch: the key goes to the handlers of the page's panels
key_other ==
  /\ loop_pc = "dispatch"
  /\ key \notin {"right", "left", "p", "m", "q", "x", "h"}
  /\ offered' = Offer(PanelsOfPage(page_panels, page), key)
  /\ loop_pc' = "cond"
  /\ UNCHANGED <<confirm_quit, key, next_key, confirmation_key, exit_by, heights>>
  /\ UNCHANGED <<ifaceVars, haltVars, cacheVars, panelVars, utilVars>>

(***************************************************************************)
(* Interface: halt and the daemon panels                                   *)
(***************************************************************************)
\* "[panel for panel in self if isinstance(panel, nyx.panel.DaemonPanel)]"
IsDaemon(p) == p \in daemons

DaemonList == SelectSeq(Iter(page_panels), IsDaemon)

\* the k-th call halt_panels makes on a list ds of daemons, were it to stop
\* and join one panel after the other
HaltCallSerial(ds, k) ==
  IF k % 2 = 1 THEN [method |-> "stop", panel |-> ds[(k + 1) \div 2]]
  ELSE [method |-> "join", panel |-> ds[k \div 2]]

\* the k-th call halt_panels makes on the list ds of daemons: the loop of
\* stop() calls, then the loop of join() calls
HaltCall(ds, k) ==
  IF k <= Len(ds) THEN [method |-> "stop", panel |-> ds[k]]
  ELSE [method |-> "join", panel |-> ds[k - Len(ds)]]

Logged(c, ctx) == [method |-> c.method, panel |-> c.panel, ctx |-> ctx]

\* a halt() that runs halt_panels itself and returns once every daemon has
\* been stopped and joined
halt_blocking ==
  LET ds == DaemonList
      n  == 2 * Len(ds) IN
  /\ constructed
  /\ caller = "idle"
  /\ caller' = "returned"
  /\ stop_requested' = daemons
  /\ running' = {}
  /\ halt_log' = [k \in 1 .. n |-> Logged(HaltCall(ds, k), "caller")]
  /\ worker_state' = "finished"
  /\ worker_pc' = n
  /\ at_return' = [running |-> {}, log |-> halt_log']
  /\ UNCHANGED <<daemons, started>>
  /\ UNCHANGED <<ifaceVars, cacheVars, loopVars, panelVars, utilVars>>

\* Interface.halt(): starts the thread that runs halt_panels and returns it
halt ==
  /\ constructed
  /\ caller = "idle"
  /\ caller' = "returned"
  /\ worker_state' = "ready"
  /\ at_return' = [running |-> running, log |-> halt_log]
  /\ UNCHANGED <<daemons, started, stop_requested, running, worker_pc, halt_log>>
  /\ UNCHANGED <<ifaceVars, cacheVars, loopVars, panelVars, utilVars>>

\* halt_panels, one call: panel.stop() returns at once, panel.join() is entered
halt_panels_call ==
  /\ worker_state = "ready"
  /\ worker_pc < 2 * Len(DaemonList)
  /\ LET c == HaltCall(DaemonList, worker_pc + 1) IN
       /\ halt_log' = Append(halt_log, Logged(c, "worker"))
       /\ worker_pc' = worker_pc + 1
       /\ IF c.method = "stop"
            THEN /\ stop_requested' = stop_requested \cup {c.panel}
                 /\ UNCHANGED worker_state
            ELSE /\ worker_state' = "joining"
                 /\ UNCHANGED stop_requested
  /\ UNCHANGED <<daemons, started, running, caller, at_return>>
  /\ UNCHANGED <<ifaceVars, cacheVars, loopVars, panelVars, utilVars>>

\* halt_panels, one call that raises: nothing in halt_panels catches it, and
\* the exception ends the thread; a stop() that raised has not stopped the
\* panel
halt_panels_call_raises ==
  /\ worker_state = "ready"
  /\ worker_pc < 2 * Len(DaemonList)
  /\ halt_log' = Append(halt_log, Logged(HaltCall(DaemonList, worker_pc + 1), "worker"))
  /\ worker_pc' = worker_pc + 1
  /\ worker_state' = "failed"
  /\ UNCHANGED <<daemons, started, stop_requested, running, caller, at_return>>
  /\ UNCHANGED <<ifaceVars, cacheVars, loopVars, panelVars, utilVars>>

\* panel.join() returns once the panel's loop has exited
halt_panels_joined ==
  /\ worker_state = "joining"
  /\ halt_log[worker_pc].panel \notin running
  /\ worker_state' = "ready"
  /\ UNCHANGED <<daemons, started, stop_requested, running, worker_pc, halt_log,
                 caller, at_return>>
  /\ UNCHANGED <<ifaceVars, cacheVars, loopVars, panelVars, utilVars>>

\* halt_panels returns: the thread, and with it the handle, completes
halt_panels_return ==
  /\ worker_state = "ready"
  /\ worker_pc = 2 * Len(DaemonList)
  /\ worker_state' = "finished"
  /\ UNCHANGED <<daemons, started, stop_requested, running, worker_pc, halt_log,
                 caller, at_return>>
  /\ UNCHANGED <<ifaceVars, cacheVars, loopVars, panelVars, utilVars>>

\* a daemon panel's loop observes the stop request and exits
panel_exit(p) ==
  /\ p \in running
  /\ p \in stop_requested
  /\ running' = running \ {p}
  /\ UNCHANGED <<daemons, started, stop_requested, worker_state, worker_pc, halt_log,
                 caller, at_return>>
  /\ UNCHANGED <<ifaceVars, cacheVars, loopVars, panelVars, utilVars>>

\* the caller waits on the handle halt() returned (Thread.join)
wait_handle ==
  /\ caller = "returned"
  /\ worker_state = "finished"
  /\ caller' = "waited"
  /\ UNCHANGED <<daemons, started, stop_requested, running, worker_state, worker_pc,
                 halt_log, at_return>>
  /\ UNCHANGED <<ifaceVars, cacheVars, loopVars, panelVars, utilVars>>

PanelExitStep == \E p \in AllPanels(page_panels) : panel_exit(p)


(***************************************************************************)
(* Cache: the store and its construction                                   *)
(***************************************************************************)
SCHEMA_VERSION == 1

NoVersion == 0 - 1

Threads == {"t1", "t2"}

NoThread == "none"

\* Fingerprints as the validator sees them: length and whether all hex digits
F1 == [id |-> 1, len |-> 40, hex |-> TRUE]

F2 == [id |-> 2, len |-> 40, hex |-> TRUE]

F39 == [id |-> 1, len |-> 39, hex |-> TRUE]

Fnonhex == [id |-> 1, len |-> 40, hex |-> FALSE]

Fingerprints == {F1, F2, F39, Fnonhex}

\* Nicknames: length and whether all characters are alphanumeric
N1 == [id |-> 1, len |-> 8, alnum |-> TRUE]

N2 == [id |-> 2, len |-> 19, alnum |-> TRUE]

Nlong == [id |-> 1, len |-> 20, alnum |-> TRUE]

Nbad == [id |-> 1, len |-> 8, alnum |-> FALSE]

\* Addresses: the family their text has the shape of, and whether it is well formed
A4 == [family |-> "ipv4", wellformed |-> TRUE]

A6 == [family |-> "ipv6", wellformed |-> TRUE]

Abad4 == [family |-> "ipv4", wellformed |-> FALSE]

Ahost == [family |-> "hostname", wellformed |-> TRUE]

NoFingerprint == [id |-> 0, len |-> 0, hex |-> FALSE]

NoNickname == [id |-> 0, len |-> 0, alnum |-> FALSE]

NoAddress == [family |-> "none", wellformed |-> FALSE]

Row(f, a, p, n) == [fingerprint |-> f, address |-> a, or_port |-> p, nickname |-> n]

NoRow == Row(NoFingerprint, NoAddress, 0, NoNickname)

\* the arguments record_relay is called with: every combination of a valid
\* and an invalid value of the four fields, two more valid records, and one
\* more invalid value of each field
RelayInputs ==
  {Row(f, a, p, n) : f \in {F1, F39}, a \in {A4, Abad4}, p \in {9001, 0}, n \in {N1, Nbad}}
    \cup {Row(F1, A6, 9001, N2), Row(F2, A4, 9001, N1)}
    \cup {Row(Fnonhex, A4, 9001, N1), Row(F1, Ahost, 9001, N1),
          Row(F1, A4, 65536, N1), Row(F1, A4, 9001, Nlong)}

\* the fingerprints the lookups are called with
LookupInputs == {F1, F2}

NoArgs == [call |-> "none", row |-> NoRow]

\* stem.util.tor_tools.is_valid_fingerprint: forty hex digits
is_valid_fingerprint(f) == f.len = 40 /\ f.hex

\* stem.util.tor_tools.is_valid_nickname: one to nineteen alphanumeric characters
is_valid_nickname(n) == n.len >= 1 /\ n.len <= 19 /\ n.alnum

\* stem.util.connection.is_valid_ipv4_address / is_valid_ipv6_address
is_valid_ipv4_address(a) == a.family = "ipv4" /\ a.wellformed

is_valid_ipv6_address(a) == a.family = "ipv6" /\ a.wellformed

\* stem.util.connection.is_valid_port: 1 to 65535
is_valid_port(p) == p > 0 /\ p < 65536

\* what Cache.__init__ can find.  data_dir: data_directory() gives a path
\* ("ok") or None (caching "disabled", or the directory cannot be made);
\* stored: what 'SELECT version FROM schema' meets in the file.
Environments ==
  [ data_dir      : {"ok", "disabled", "mkdir_fails"},
    connect_ok    : BOOLEAN,
    stored        : {"no_schema_table", "no_version_row", "corrupt", "version"},
    version       : {SCHEMA_VERSION - 1, SCHEMA_VERSION, SCHEMA_VERSION + 1},
    stored_relays : { {}, {Row(F1, A4, 9001, N1)} },
    remove_ok     : BOOLEAN,
    reconnect_ok  : BOOLEAN ]

NoEnv ==
  [data_dir |-> "disabled", connect_ok |-> TRUE, stored |-> "no_schema_table",
   version |-> SCHEMA_VERSION, stored_relays |-> {}, remove_ok |-> TRUE, reconnect_ok |-> TRUE]

\* the threads as they are before any of them has called the cache
ThreadsInit ==
  /\ conn_lock = NoThread
  /\ pc = [t \in Threads |-> "idle"]
  /\ args = [t \in Threads |-> NoArgs]
  /\ err = [t \in Threads |-> "none"]
  /\ cursor = [t \in Threads |-> {}]
  /\ scope_muts = [t \in Threads |-> {}]
  /\ last_ok = [f \in Fingerprints |-> {}]
  /\ kept = [f \in Fingerprints |-> {}]
  /\ kept_committed = [f \in Fingerprints |-> {}]

\* the statements of SCHEMA run on an empty store
SchemaCreated ==
  /\ schema_version' = SCHEMA_VERSION
  /\ relays_committed' = {}
  /\ relays_working' = {}

\* "schema = self._conn.execute('SELECT version FROM schema').fetchone()[0]"
\* inside try/except: the stored version, or None (NoVersion) when connect or
\* the query raises or the table has no row
ReadSchema(e) ==
  IF e.connect_ok /\ e.stored = "version" THEN e.version ELSE NoVersion

\* Cache.__init__
Cache_init ==
  /\ cache_state = "unconstructed"
  /\ IF env.data_dir # "ok"
       THEN /\ cache_state' = "ready"
            /\ persistent' = FALSE
            /\ SchemaCreated
       ELSE IF ReadSchema(env) = SCHEMA_VERSION
         THEN /\ cache_state' = "ready"
              /\ persistent' = TRUE
              /\ schema_version' = env.version
              /\ relays_committed' = env.stored_relays
              /\ relays_working' = env.stored_relays
         ELSE IF ~env.connect_ok \/ ~env.remove_ok \/ ~env.reconnect_ok
           \* self._conn.close() on a connection that was never made, os.remove
           \* or the second connect raises
           THEN /\ cache_state' = "aborted"
                /\ UNCHANGED <<persistent, schema_version, relays_committed, relays_working>>
           ELSE /\ cache_state' = "ready"
                /\ persistent' = TRUE
                /\ SchemaCreated
  /\ UNCHANGED <<env, conn_lock, pc, args, err, cursor, scope_muts,
                 last_ok, kept, kept_committed>>
  /\ UNCHANGED <<ifaceVars, haltVars, loopVars, panelVars, utilVars>>

\* the interface and its halt thread as they are in the runs about the cache
IfaceIdle ==
  /\ InterfaceInit(ShowFlags)
  /\ HaltInit({})
  /\ LoopIdle
  /\ PanelIdle
  /\ UtilIdle

InitCacheInit ==
  /\ IfaceIdle
  /\ env \in Environments
  /\ cache_state = "unconstructed"
  /\ persistent = FALSE
  /\ schema_version = NoVersion
  /\ relays_committed = {}
  /\ relays_working = {}
  /\ ThreadsInit

SpecCacheInit == InitCacheInit /\ [][Cache_init]_vars

\* a constructed Cache with an empty table relays
CacheFresh ==
  /\ env = NoEnv
  /\ cache_state = "ready"
  /\ persistent = FALSE
  /\ schema_version = SCHEMA_VERSION
  /\ relays_committed = {}
  /\ relays_working = {}
  /\ ThreadsInit

(***************************************************************************)
(* Cache: write scopes, record_relay and the lookups                       *)
(***************************************************************************)
Set(f, t, v) == [f EXCEPT ![t] = v]

\* 'INSERT OR REPLACE INTO relays' without the replace: the old row stays
InsertKeepingOld(table, row) == table \cup {row}

\* 'INSERT OR REPLACE INTO relays ...' on a table whose primary key is fingerprint
InsertOrReplace(table, row) ==
  {r \in table : r.fingerprint # row.fingerprint} \cup {row}

\* 'SELECT ... FROM relays WHERE fingerprint=?'
SelectRelay(table, f) == {r \in table : r.fingerprint = f}

\* the first row of a result set, as execute() leaves it in the cursor
FirstRow(rows) == IF rows = {} THEN {} ELSE {CHOOSE r \in rows : TRUE}

\* what relay_nickname / relay_address return for the row fetchone() gives:
\* "result[0] if result else default", "result if result else default"
LookupReturn(call, cur) ==
  IF cur = {} THEN [default |-> TRUE, value |-> NoRow]
  ELSE LET r == CHOOSE x \in cur : TRUE IN
       [default |-> FALSE,
        value |-> IF call = "relay_nickname"
                    THEN Row(NoFingerprint, NoAddress, 0, r.nickname)
                    ELSE Row(NoFingerprint, r.address, r.or_port, NoNickname)]

\* Cache.write(): "with self._conn:" is entered; sqlite3's __enter__ does nothing
write_enter(t) ==
  /\ cache_state = "ready"
  /\ pc[t] = "idle"
  /\ pc' = Set(pc, t, "scope")
  /\ scope_muts' = Set(scope_muts, t, {})
  /\ UNCHANGED <<env, cache_state, persistent, schema_version, relays_committed,
                 relays_working, conn_lock, args, err, cursor, last_ok, kept, kept_committed>>
  /\ UNCHANGED <<ifaceVars, haltVars, loopVars, panelVars, utilVars>>

\* a record_relay that checks the address before the nickname
record_relay_address_first(t, fingerprint, address, or_port, nickname) ==
  /\ pc[t] = "scope"
  /\ LET e == IF ~is_valid_fingerprint(fingerprint) THEN "fingerprint"
              ELSE IF ~is_valid_ipv4_address(address) /\ ~is_valid_ipv6_address(address)
                THEN "address"
              ELSE IF ~is_valid_nickname(nickname) THEN "nickname"
              ELSE IF ~is_valid_port(or_port) THEN "port"
              ELSE "none" IN
       /\ err' = Set(err, t, e)
       /\ pc' = Set(pc, t, IF e = "none" THEN "rec_lock" ELSE "raised")
       /\ args' = Set(args, t, IF e = "none"
                                 THEN [call |-> "record_relay",
                                       row |-> Row(fingerprint, address, or_port, nickname)]
                                 ELSE NoArgs)
  /\ UNCHANGED <<env, cache_state, persistent, schema_version, relays_committed,
                 relays_working, conn_lock, cursor, scope_muts,
                 last_ok, kept, kept_committed>>
  /\ UNCHANGED <<ifaceVars, haltVars, loopVars, panelVars, utilVars>>

\* CacheWriter.record_relay up to its call of _query: the if/elif chain that
\* raises ValueError, or falls through to the INSERT
record_relay(t, fingerprint, address, or_port, nickname) ==
  /\ pc[t] = "scope"
  /\ LET e == IF ~is_valid_fingerprint(fingerprint) THEN "fingerprint"
              ELSE IF ~is_valid_nickname(nickname) THEN "nickname"
              ELSE IF ~is_valid_ipv4_address(address) /\ ~is_valid_ipv6_address(address)
                THEN "address"
              ELSE IF ~is_valid_port(or_port) THEN "port"
              ELSE "none" IN
       /\ err' = Set(err, t, e)
       /\ pc' = Set(pc, t, IF e = "none" THEN "rec_lock" ELSE "raised")
       /\ args' = Set(args, t, IF e = "none"
                                 THEN [call |-> "record_relay",
                                       row |-> Row(fingerprint, address, or_port, nickname)]
                                 ELSE NoArgs)
  /\ UNCHANGED <<env, cache_state, persistent, schema_version, relays_committed,
                 relays_working, conn_lock, cursor, scope_muts,
                 last_ok, kept, kept_committed>>
  /\ UNCHANGED <<ifaceVars, haltVars, loopVars, panelVars, utilVars>>

\* Cache._query: "with self._conn_lock:" is entered
query_acquire(t) ==
  /\ pc[t] \in {"rec_lock", "q_lock"}
  /\ conn_lock = NoThread
  /\ conn_lock' = t
  /\ pc' = Set(pc, t, IF pc[t] = "rec_lock" THEN "rec_exec" ELSE "q_exec")
  /\ UNCHANGED <<env, cache_state, persistent, schema_version, relays_committed,
                 relays_working, args, err, cursor, scope_muts,
                 last_ok, kept, kept_committed>>
  /\ UNCHANGED <<ifaceVars, haltVars, loopVars, panelVars, utilVars>>

\* Cache._query for record_relay: the INSERT is executed, the lock is left and
\* record_relay returns
record_relay_execute(t) ==
  /\ pc[t] = "rec_exec"
  /\ relays_working' = InsertOrReplace(relays_working, args[t].row)
  /\ scope_muts' = Set(scope_muts, t, {r \in scope_muts[t] : r.fingerprint # args[t].row.fingerprint}
                                         \cup {args[t].row})
  /\ last_ok' = Set(last_ok, args[t].row.fingerprint, {args[t].row})
  /\ kept' = Set(kept, args[t].row.fingerprint, {args[t].row})
  /\ conn_lock' = NoThread
  /\ pc' = Set(pc, t, "scope")
  /\ args' = Set(args, t, NoArgs)
  /\ UNCHANGED <<env, cache_state, persistent, schema_version, relays_committed,
                 err, cursor, kept_committed>>
  /\ UNCHANGED <<ifaceVars, haltVars, loopVars, panelVars, utilVars>>

\* the caller catches record_relay's ValueError inside its write() scope
catch_error(t) ==
  /\ pc[t] = "raised"
  /\ pc' = Set(pc, t, "scope")
  /\ err' = Set(err, t, "none")
  /\ args' = Set(args, t, NoArgs)
  /\ UNCHANGED <<env, cache_state, persistent, schema_version, relays_committed,
                 relays_working, conn_lock, cursor, scope_muts,
                 last_ok, kept, kept_committed>>
  /\ UNCHANGED <<ifaceVars, haltVars, loopVars, panelVars, utilVars>>

\* the ValueError leaves the write() scope: sqlite3's __exit__ starts the rollback
write_exit_error(t) ==
  /\ pc[t] = "raised"
  /\ pc' = Set(pc, t, "rollback")
  /\ err' = Set(err, t, "none")
  /\ args' = Set(args, t, NoArgs)
  /\ UNCHANGED <<env, cache_state, persistent, schema_version, relays_committed,
                 relays_working, conn_lock, cursor, scope_muts,
                 last_ok, kept, kept_committed>>
  /\ UNCHANGED <<ifaceVars, haltVars, loopVars, panelVars, utilVars>>

\* the rollback is done: the connection's uncommitted statements are undone
rollback_done(t) ==
  /\ pc[t] = "rollback"
  /\ relays_working' = relays_committed
  /\ kept' = kept_committed
  /\ pc' = Set(pc, t, "idle")
  /\ scope_muts' = Set(scope_muts, t, {})
  /\ UNCHANGED <<env, cache_state, persistent, schema_version, relays_committed,
                 conn_lock, args, err, cursor, last_ok, kept_committed>>
  /\ UNCHANGED <<ifaceVars, haltVars, loopVars, panelVars, utilVars>>

\* the write() scope ends normally: sqlite3's __exit__ starts the commit
write_exit(t) ==
  /\ pc[t] = "scope"
  /\ pc' = Set(pc, t, "commit")
  /\ UNCHANGED <<env, cache_state, persistent, schema_version, relays_committed,
                 relays_working, conn_lock, args, err, cursor, scope_muts,
                 last_ok, kept, kept_committed>>
  /\ UNCHANGED <<ifaceVars, haltVars, loopVars, panelVars, utilVars>>

\* the commit is done: the connection's uncommitted statements are committed
commit_done(t) ==
  /\ pc[t] = "commit"
  /\ relays_committed' = relays_working
  /\ kept_committed' = kept
  /\ pc' = Set(pc, t, "idle")
  /\ scope_muts' = Set(scope_muts, t, {})
  /\ UNCHANGED <<env, cache_state, persistent, schema_version, relays_working,
                 conn_lock, args, err, cursor, last_ok, kept>>
  /\ UNCHANGED <<ifaceVars, haltVars, loopVars, panelVars, utilVars>>

\* Cache.relay_nickname / Cache.relay_address is called
lookup(t, call, fingerprint) ==
  /\ cache_state = "ready"
  /\ pc[t] = "idle"
  /\ pc' = Set(pc, t, "q_lock")
  /\ args' = Set(args, t, [call |-> call, row |-> Row(fingerprint, NoAddress, 0, NoNickname)])
  /\ UNCHANGED <<env, cache_state, persistent, schema_version, relays_committed,
                 relays_working, conn_lock, err, cursor, scope_muts,
                 last_ok, kept, kept_committed>>
  /\ UNCHANGED <<ifaceVars, haltVars, loopVars, panelVars, utilVars>>

\* Cache._query for a lookup: the SELECT is executed, which leaves its first
\* row in the cursor; the lock is left and fetchone() is entered
lookup_execute(t) ==
  /\ pc[t] = "q_exec"
  /\ cursor' = Set(cursor, t, FirstRow(SelectRelay(relays_working, args[t].row.fingerprint)))
  /\ conn_lock' = NoThread
  /\ pc' = Set(pc, t, "fetch")
  /\ UNCHANGED <<env, cache_state, persistent, schema_version, relays_committed,
                 relays_working, args, err, scope_muts,
                 last_ok, kept, kept_committed>>
  /\ UNCHANGED <<ifaceVars, haltVars, loopVars, panelVars, utilVars>>

\* fetchone() returns and the lookup returns LookupReturn of the cursor's row
lookup_return(t) ==
  /\ pc[t] = "fetch"
  /\ pc' = Set(pc, t, "idle")
  /\ cursor' = Set(cursor, t, {})
  /\ args' = Set(args, t, NoArgs)
  /\ UNCHANGED <<env, cache_state, persistent, schema_version, relays_committed,
                 relays_working, conn_lock, err, scope_muts,
                 last_ok, kept, kept_committed>>
  /\ UNCHANGED <<ifaceVars, haltVars, loopVars, panelVars, utilVars>>

\* the thread is inside a call on self._conn (execute, fetchone, commit, rollback)
OnConnection(t) == pc[t] \in {"rec_exec", "q_exec", "fetch", "commit", "rollback"}

(***************************************************************************)
(* Panel (src/interface/util.py)                                           *)
(***************************************************************************)
Min(a, b) == IF a < b THEN a ELSE b

Max(a, b) == IF a > b THEN a ELSE b

\* the sizes of the container, the preferred heights of a Panel and the
\* arguments its methods are called with
Sizes == [y : 1 .. MaxScreen, x : {ScreenCols}]

PrefHeights == {0 - 1, 1}

StartYArgs == 0 .. MaxScreen + 1

MaxXArgs == {0 - 1, ScreenCols - 1, ScreenCols + 1}

Rows == {0 - 1, 0, MaxScreen - 1}

Cols == {0 - 1, 0, ScreenCols - 1}

MsgLens == {1, ScreenCols}

\* a message with markup, as the lengths of the pieces of text between its tags
Markups == {<<>>, <<1, 1>>, <<0, ScreenCols>>}

\* stdscr.subwin(nlines, ncols, begin_y, 0) in a container of size s: 0 lines
\* or columns stand for all that is left
subwin(s, nlines, ncols, begin_y) ==
  [top |-> begin_y,
   height |-> IF nlines = 0 THEN s.y - begin_y ELSE nlines,
   width |-> IF ncols = 0 THEN s.x ELSE ncols]

\* win.getmaxyx() and win.getparyx()[0]
getmaxyx(w) == [y |-> w.height, x |-> w.width]

getparyx0(w) == w.top

\* Panel._resetBounds: the bounds it leaves for the window w
ResetBounds(w) == IF w # NoWin THEN getmaxyx(w) ELSE [y |-> 0 - 1, x |-> 0 - 1]

\* a recreate without the test for a top outside the container
recreate_unchecked(arg_startY, arg_maxX) ==
  LET b == ResetBounds(win)
      newHeight0 == Max(0, scr.y - arg_startY)
      newHeight == IF height # 0 - 1 THEN Min(newHeight0, height) ELSE newHeight0 IN
  /\ maxY' = b.y
  /\ maxX' = b.x
  /\ IF arg_startY # startY \/ newHeight > b.y \/ isDisplaced
          \/ (b.x # arg_maxX /\ arg_maxX # 0 - 1)
       THEN /\ startY' = arg_startY
            /\ win' = subwin(scr, newHeight,
                             IF arg_maxX # 0 - 1 THEN Min(scr.x, arg_maxX) ELSE scr.x,
                             Min(arg_startY, scr.y - 1))
            /\ panel_op' = PanelOp("recreate", arg_startY, arg_maxX, TRUE, FALSE, <<>>)
       ELSE /\ panel_op' = PanelOp("recreate", arg_startY, arg_maxX, FALSE, FALSE, <<>>)
            /\ UNCHANGED <<win, startY>>
  /\ UNCHANGED <<scr, height, isDisplaced>>
  /\ UNCHANGED <<ifaceVars, haltVars, cacheVars, loopVars, utilVars>>

\* Panel.recreate(stdscr, startY, maxX)
recreate(arg_startY, arg_maxX) ==
  LET b == ResetBounds(win)
      newHeight0 == Max(0, scr.y - arg_startY)
      newHeight == IF height # 0 - 1 THEN Min(newHeight0, height) ELSE newHeight0 IN
  /\ maxY' = b.y
  /\ maxX' = b.x
  /\ IF win # NoWin /\ arg_startY > scr.y
       THEN /\ panel_op' = PanelOp("recreate", arg_startY, arg_maxX, FALSE, FALSE, <<>>)
            /\ UNCHANGED <<win, startY>>
       ELSE IF arg_startY # startY \/ newHeight > b.y \/ isDisplaced
               \/ (b.x # arg_maxX /\ arg_maxX # 0 - 1)
         THEN /\ startY' = arg_startY
              /\ win' = subwin(scr, newHeight,
                               IF arg_maxX # 0 - 1 THEN Min(scr.x, arg_maxX) ELSE scr.x,
                               Min(arg_startY, scr.y - 1))
              /\ panel_op' = PanelOp("recreate", arg_startY, arg_maxX, TRUE, FALSE, <<>>)
         ELSE /\ panel_op' = PanelOp("recreate", arg_startY, arg_maxX, FALSE, FALSE, <<>>)
              /\ UNCHANGED <<win, startY>>
  /\ UNCHANGED <<scr, height, isDisplaced>>
  /\ UNCHANGED <<ifaceVars, haltVars, cacheVars, loopVars, utilVars>>

\* a call on the subwindow
WinCall(name, row, col, len) == [call |-> name, row |-> row, col |-> col, len |-> len]

\* Panel.clear()
clear ==
  /\ IF win # NoWin
       THEN LET displaced == startY > getparyx0(win) IN
            /\ isDisplaced' = displaced
            /\ maxY' = getmaxyx(win).y
            /\ maxX' = getmaxyx(win).x
            /\ panel_op' = PanelOp("clear", 0, 0, FALSE, FALSE,
                                   IF displaced THEN <<>> ELSE <<WinCall("erase", 0, 0, 0)>>)
       ELSE /\ panel_op' = PanelOp("clear", 0, 0, FALSE, FALSE, <<>>)
            /\ UNCHANGED <<isDisplaced, maxY, maxX>>
  /\ UNCHANGED <<scr, win, startY, height>>
  /\ UNCHANGED <<ifaceVars, haltVars, cacheVars, loopVars, utilVars>>

\* Panel.refresh()
refresh ==
  /\ panel_op' = PanelOp("refresh", 0, 0, FALSE, FALSE,
                         IF win # NoWin /\ ~isDisplaced
                           THEN <<WinCall("refresh", 0, 0, 0)>> ELSE <<>>)
  /\ UNCHANGED <<scr, win, startY, height, isDisplaced, maxY, maxX>>
  /\ UNCHANGED <<ifaceVars, haltVars, cacheVars, loopVars, utilVars>>

\* win.addstr(row, col, text) raises curses.error when the position is not in
\* the window, or when the text reaches the window's last cell
AddstrRaises(w, c) ==
  \/ c.row < 0 \/ c.row >= w.height
  \/ c.col < 0 \/ c.col >= w.width
  \/ (c.row = w.height - 1 /\ c.col + c.len >= w.width)

\* the calls of ws up to the first one that raises
RECURSIVE UpToRaise(_, _)
UpToRaise(w, ws) ==
  IF ws = <<>> THEN <<>>
  ELSE IF AddstrRaises(w, Head(ws)) THEN <<Head(ws)>>
  ELSE <<Head(ws)>> \o UpToRaise(w, Tail(ws))

\* "msg[:self.maxX - x - 1]": the length of the slice of a text of length len
Clip(len, col) ==
  LET k == maxX - col - 1 IN
  IF k >= 0 THEN Min(len, k) ELSE Max(0, len + k)

\* Panel.addstr(y, x, msg) for a msg of length len
addstr(y, x, len) ==
  LET ws == IF win # NoWin /\ maxX > x /\ maxY > y /\ ~isDisplaced
              THEN <<WinCall("addstr", y, x, Clip(len, x))>> ELSE <<>> IN
  /\ panel_op' = PanelOp("addstr", y, x, FALSE,
                         \E i \in DOMAIN ws : AddstrRaises(win, ws[i]), ws)
  /\ UNCHANGED <<scr, win, startY, height, isDisplaced, maxY, maxX>>
  /\ UNCHANGED <<ifaceVars, haltVars, cacheVars, loopVars, utilVars>>

\* the while loop of addfstr at column x with the pieces segs left to write:
\* a piece is written clipped, and x moves on by its full length
RECURSIVE AddfstrLoop(_, _, _)
AddfstrLoop(y, x, segs) ==
  IF maxX > x /\ segs # <<>>
    THEN <<WinCall("addstr", y, x, Clip(Head(segs), x))>>
           \o AddfstrLoop(y, x + Head(segs), Tail(segs))
    ELSE <<>>

\* Panel.addfstr(y, x, msg) for a msg whose pieces of text are segs
addfstr(y, x, segs) ==
  LET all == IF win # NoWin /\ maxY > y /\ ~isDisplaced
               THEN AddfstrLoop(y, x, segs) ELSE <<>>
      ws == IF win # NoWin THEN UpToRaise(win, all) ELSE <<>> IN
  /\ panel_op' = PanelOp("addfstr", y, x, FALSE,
                         \E i \in DOMAIN ws : AddstrRaises(win, ws[i]), ws)
  /\ UNCHANGED <<scr, win, startY, height, isDisplaced, maxY, maxX>>
  /\ UNCHANGED <<ifaceVars, haltVars, cacheVars, loopVars, utilVars>>

\* the terminal is resized: the container gets the size s, and a subwindow
\* that no longer fits is either left as it is or moved up and cut to fit
resize(s) ==
  /\ s # scr
  /\ scr' = s
  /\ \/ UNCHANGED win
     \/ /\ win # NoWin
        /\ win.top + win.height > s.y
        /\ win' = [top |-> Max(0, Min(win.top, s.y - win.height)),
                   height |-> Min(win.height, s.y),
                   width |-> Min(win.width, s.x)]
  /\ panel_op' = PanelOp("resize", s.y, s.x, FALSE, FALSE, <<>>)
  /\ UNCHANGED <<startY, height, isDisplaced, maxY, maxX>>
  /\ UNCHANGED <<ifaceVars, haltVars, cacheVars, loopVars, utilVars>>

(***************************************************************************)
(* Panel.addfstr: the markup of a message (src/interface/util.py)          *)
(***************************************************************************)
\* A message is a sequence of items: a plain character "c" or the text of a
\* tag.  "<x>" and "</x>" are tags that FORMAT_TAGS does not know.
MaxMsg == 5

Items == {"c", "<b>", "</b>", "<u>", "</u>", "<x>"}

\* an attribute is the set of its bits: A_NORMAL has none
A_NORMAL == {}

\* FORMAT_TAGS before initColors(): every color is A_NORMAL
FORMAT_TAGS ==
  [t \in {"<b>", "<u>", "<h>", "<red>"} |->
     CASE t = "<b>" -> {"A_BOLD"}
       [] t = "<u>" -> {"A_UNDERLINE"}
       [] t = "<h>" -> {"A_STANDOUT"}
       [] OTHER -> A_NORMAL]

\* "</" + nextTag[1:] and "<" + nextTag[2:]
CloseOf(t) ==
  CASE t = "<b>" -> "</b>" [] t = "<u>" -> "</u>" [] t = "<h>" -> "</h>"
    [] t = "<red>" -> "</red>" [] OTHER -> "</x>"

OpenOf(t) ==
  CASE t = "</b>" -> "<b>" [] t = "</u>" -> "<u>" [] t = "</h>" -> "<h>"
    [] t = "</red>" -> "<red>" [] OTHER -> "<x>"

\* nextTag.startswith("</")
IsCloseTag(t) == t \in {"</b>", "</u>", "</h>", "</red>", "</x>"}

\* len() of an item and of a piece of a message
ItemLen(it) ==
  CASE it = "c" -> 1
    [] it \in {"<b>", "<u>", "<h>", "<x>"} -> 3
    [] it \in {"</b>", "</u>", "</h>", "</x>"} -> 4
    [] it = "<red>" -> 5
    [] it = "</red>" -> 6

RECURSIVE TextLen(_)
TextLen(m) == IF m = <<>> THEN 0 ELSE ItemLen(Head(m)) + TextLen(Tail(m))

\* list.remove(v): s without the first of its elements equal to v
RECURSIVE Remove(_, _)
Remove(s, v) ==
  IF s = <<>> THEN <<>>
  ELSE IF Head(s) = v THEN Tail(s)
  ELSE <<Head(s)>> \o Remove(Tail(s), v)

\* "attr |= format" over formatting
RECURSIVE AttrOf(_)
AttrOf(formatting) ==
  IF formatting = <<>> THEN {} ELSE Head(formatting) \cup AttrOf(Tail(formatting))

\* the place of the nearest tag of msg among FORMAT_TAGS.keys() +
\* expectedCloseTags, 0 when there is none
NextTagIndex(msg, expectedCloseTags) ==
  LET known == DOMAIN FORMAT_TAGS \cup {expectedCloseTags[i] : i \in DOMAIN expectedCloseTags}
      at == {i \in DOMAIN msg : msg[i] \in known} IN
  IF at = {} THEN 0 ELSE CHOOSE i \in at : \A j \in at : i <= j

\* win.addstr(y, x, text, attr), with the depth of the stack of attributes
\* when it is made
AttrCall(row, col, len, attr, depth) ==
  [call |-> "addstr", row |-> row, col |-> col, len |-> len, attr |-> attr, depth |-> depth]

\* "msgSegment[:limit - x - 1]" for a piece of length len
Slice(len, limit) == IF limit >= 0 THEN Min(len, limit) ELSE Max(0, len + limit)

\* a tag that is applied without taking anything off the stacks at a close
ApplyTagKeeping(nextTag, formatting, expectedCloseTags) ==
  IF ~IsCloseTag(nextTag)
    THEN [formatting |-> Append(formatting, FORMAT_TAGS[nextTag]),
          expectedCloseTags |-> Append(expectedCloseTags, CloseOf(nextTag))]
    ELSE [formatting |-> formatting, expectedCloseTags |-> expectedCloseTags]

\* "applies tag attributes for future text": the two stacks after nextTag
ApplyTag(nextTag, formatting, expectedCloseTags) ==
  IF ~IsCloseTag(nextTag)
    THEN [formatting |-> Append(formatting, FORMAT_TAGS[nextTag]),
          expectedCloseTags |-> Append(expectedCloseTags, CloseOf(nextTag))]
    ELSE [formatting |-> Remove(formatting, FORMAT_TAGS[OpenOf(nextTag)]),
          expectedCloseTags |-> Remove(expectedCloseTags, nextTag)]

\* the while loop of addfstr on a window of width limit: the calls it makes
\* on the window and the depth of the stack of attributes when it ends
RECURSIVE MarkupLoop(_, _, _, _, _, _)
MarkupLoop(y, x, msg, limit, formatting, expectedCloseTags) ==
  IF limit > x /\ Len(msg) > 0
    THEN LET i == NextTagIndex(msg, expectedCloseTags)
             msgSegment == IF i # 0 THEN SubSeq(msg, 1, i - 1) ELSE msg
             rest == IF i # 0 THEN SubSeq(msg, i + 1, Len(msg)) ELSE <<>>
             w == AttrCall(y, x, Slice(TextLen(msgSegment), limit - x - 1),
                           AttrOf(formatting), Len(formatting))
             st == IF i # 0 THEN ApplyTag(msg[i], formatting, expectedCloseTags)
                   ELSE [formatting |-> formatting, expectedCloseTags |-> expectedCloseTags]
             r == MarkupLoop(y, x + TextLen(msgSegment), rest, limit,
                             st.formatting, st.expectedCloseTags) IN
         [writes |-> <<w>> \o r.writes, depth |-> r.depth]
    ELSE [writes |-> <<>>, depth |-> Len(formatting)]

\* Panel.addfstr(y, x, msg) on a Panel that has a window of width limit which
\* is not displaced, with y inside it
addfstr_markup ==
  /\ fn_in.fn = "addfstr"
  /\ fn_out = NoCall
  /\ fn_out' = [fn |-> "addfstr"] @@
               MarkupLoop(fn_in.y, fn_in.x, fn_in.msg, fn_in.maxX, <<A_NORMAL>>, <<>>)
  /\ UNCHANGED <<fn_in, CACHE, getter_pc, instances, made, got>>
  /\ UNCHANGED <<ifaceVars, haltVars, cacheVars, loopVars, panelVars>>

(***************************************************************************)
(* getSizeLabel (src/interface/util.py)                                    *)
(***************************************************************************)
\* the largest multiple of a unit in the byte counts that are looked at
MaxMultiple == 20

\* "%i" % n for n >= 0: the decimal digits of n
RECURSIVE Digits(_)
Digits(n) == IF n < 10 THEN <<n>> ELSE Digits(n \div 10) \o <<n % 10>>

\* "%i GB" % n and the like: the digits, then the suffix
Label(n, suffix) == [digits |-> Digits(n), suffix |-> suffix]

\* a label in the nearest unit instead of the unit count truncated
getSizeLabel_rounding(bytes) ==
  IF bytes >= 1073741824 THEN Label((bytes - 536870912) \div 1073741824 + 1, " GB")
  ELSE IF bytes >= 1048576 THEN Label((bytes + 524288) \div 1048576, " MB")
  ELSE IF bytes >= 1024 THEN Label((bytes + 512) \div 1024, " KB")
  ELSE Label(bytes, " bytes")

\* getSizeLabel(bytes): "/" on two integers is the floor of the quotient
getSizeLabel(bytes) ==
  IF bytes >= 1073741824 THEN Label(bytes \div 1073741824, " GB")
  ELSE IF bytes >= 1048576 THEN Label(bytes \div 1048576, " MB")
  ELSE IF bytes >= 1024 THEN Label(bytes \div 1024, " KB")
  ELSE Label(bytes, " bytes")

\* a call of getSizeLabel
size_label ==
  /\ fn_in.fn = "getSizeLabel"
  /\ fn_out = NoCall
  /\ fn_out' = [fn |-> "getSizeLabel", label |-> getSizeLabel(fn_in.bytes)]
  /\ UNCHANGED <<fn_in, CACHE, getter_pc, instances, made, got>>
  /\ UNCHANGED <<ifaceVars, haltVars, cacheVars, loopVars, panelVars>>

(***************************************************************************)
(* join (src/nyx/__init__.py)                                              *)
(***************************************************************************)
\* A string is the sequence of its characters.
MaxEntries == 3

MaxSize == 5

\* joiner.join(entries), Python's str.join
RECURSIVE StrJoin(_, _)
StrJoin(joiner, entries) ==
  IF entries = <<>> THEN <<>>
  ELSE IF Len(entries) = 1 THEN entries[1]
  ELSE entries[1] \o joiner \o StrJoin(joiner, Tail(entries))

\* the for loop of join over the entries left, with result so far: an empty
\* result is false in "if result"
RECURSIVE JoinLoop(_, _, _, _)
JoinLoop(entries, joiner, size, result) ==
  IF entries = <<>> THEN result
  ELSE LET new_result == IF result # <<>> THEN StrJoin(joiner, <<result, Head(entries)>>)
                         ELSE Head(entries) IN
       IF Len(new_result) > size THEN result
       ELSE JoinLoop(Tail(entries), joiner, size, new_result)

\* join(entries, joiner, size); limited is false for "size is None"
join(entries, joiner, limited, size) ==
  IF ~limited THEN StrJoin(joiner, entries) ELSE JoinLoop(entries, joiner, size, <<>>)

\* a call of join
join_call ==
  /\ fn_in.fn = "join"
  /\ fn_out = NoCall
  /\ fn_out' = [fn |-> "join",
                result |-> join(fn_in.entries, fn_in.joiner, fn_in.limited, fn_in.size)]
  /\ UNCHANGED <<fn_in, CACHE, getter_pc, instances, made, got>>
  /\ UNCHANGED <<ifaceVars, haltVars, cacheVars, loopVars, panelVars>>

(***************************************************************************)
(* expand_events (src/nyx/arguments.py)                                    *)
(***************************************************************************)
MaxFlags == 3

\* the flags of TOR_EVENT_TYPES, and the event type of each
EventFlags ==
  {"d", "i", "n", "w", "e", "b", "c", "s", "a", "f", "j", "k", "l", "m",
   "p", "q", "r", "u", "g", "h", "v", "x", "y", "z", "B", "o", "C", "F",
   "G", "H", "I", "J", "t"}

EventTypeOf(f) ==
  CASE f = "d" -> "DEBUG" [] f = "i" -> "INFO" [] f = "n" -> "NOTICE"
     [] f = "w" -> "WARN" [] f = "e" -> "ERR" [] f = "b" -> "BW"
     [] f = "c" -> "CIRC" [] f = "s" -> "STREAM" [] f = "a" -> "ADDRMAP"
     [] f = "f" -> "AUTHDIR_NEWDESCS" [] f = "j" -> "BUILDTIMEOUT_SET" [] f = "k" -> "CELL_STATS"
     [] f = "l" -> "CIRC_BW" [] f = "m" -> "CIRC_MINOR" [] f = "p" -> "CONF_CHANGED"
     [] f = "q" -> "CONN_BW" [] f = "r" -> "CLIENTS_SEEN" [] f = "u" -> "DESCCHANGED"
     [] f = "g" -> "GUARD" [] f = "h" -> "HS_DESC" [] f = "v" -> "HS_DESC_CONTENT"
     [] f = "x" -> "NETWORK_LIVENESS" [] f = "y" -> "NEWCONSENSUS" [] f = "z" -> "NEWDESC"
     [] f = "B" -> "NS" [] f = "o" -> "ORCONN" [] f = "C" -> "SIGNAL"
     [] f = "F" -> "STREAM_BW" [] f = "G" -> "STATUS_CLIENT" [] f = "H" -> "STATUS_GENERAL"
     [] f = "I" -> "STATUS_SERVER" [] f = "J" -> "TB_EMPTY" [] f = "t" -> "TRANSPORT_LAUNCHED"

\* TOR_EVENT_TYPES: a dict from flag to event type
TOR_EVENT_TYPES == [f \in EventFlags |-> EventTypeOf(f)]

\* nyx.log.TOR_RUNLEVELS and nyx.log.NYX_RUNLEVELS
TOR_RUNLEVELS == <<"DEBUG", "INFO", "NOTICE", "WARN", "ERR">>

NYX_RUNLEVELS == <<"NYX_DEBUG", "NYX_INFO", "NYX_NOTICE", "NYX_WARNING", "NYX_ERROR">>

\* the runlevel_index of a flag of 'DINWE12345'
runlevel_index(flag) ==
  IF flag \in {"D", "1"} THEN 0
  ELSE IF flag \in {"I", "2"} THEN 1
  ELSE IF flag \in {"N", "3"} THEN 2
  ELSE IF flag \in {"W", "4"} THEN 3
  ELSE 4

\* "runlevels[runlevel_index:]", as a set
From(runlevels, idx) == {runlevels[i] : i \in idx + 1 .. Len(runlevels)}

\* "list(TOR_EVENT_TYPES)": the list of a dict is the list of its keys
ListOfDict(d) == DOMAIN d

\* the for loop of expand_events over the flags left, and what follows it; a
\* call returns a set of events or raises ValueError
RECURSIVE ExpandLoop(_, _, _)
ExpandLoop(flags, expanded_events, invalid_flags) ==
  IF flags = <<>>
    THEN IF invalid_flags # <<>>
           THEN [raised |-> "ValueError", events |-> {}]
           ELSE [raised |-> "none", events |-> expanded_events]
  ELSE LET flag == Head(flags) IN
       IF flag = "A"
         THEN [raised |-> "none",
               events |-> ListOfDict(TOR_EVENT_TYPES) \cup Range(NYX_RUNLEVELS) \cup {"UNKNOWN"}]
       ELSE IF flag = "X"
         THEN [raised |-> "none", events |-> {}]
       ELSE IF flag \in {"D", "I", "N", "W", "E"}
         THEN ExpandLoop(Tail(flags),
                         expanded_events \cup From(TOR_RUNLEVELS, runlevel_index(flag)),
                         invalid_flags)
       ELSE IF flag \in {"1", "2", "3", "4", "5"}
         THEN ExpandLoop(Tail(flags),
                         expanded_events \cup From(NYX_RUNLEVELS, runlevel_index(flag)),
                         invalid_flags)
       ELSE IF flag = "U"
         THEN ExpandLoop(Tail(flags), expanded_events \cup {"UNKNOWN"}, invalid_flags)
       ELSE IF flag \in DOMAIN TOR_EVENT_TYPES
         THEN ExpandLoop(Tail(flags), expanded_events \cup {TOR_EVENT_TYPES[flag]},
                         invalid_flags)
       ELSE ExpandLoop(Tail(flags), expanded_events, Append(invalid_flags, flag))

\* expand_events(flags)
expand_events(flags) == ExpandLoop(flags, {}, <<>>)

\* a call of expand_events
expand_events_call ==
  /\ fn_in.fn = "expand_events"
  /\ fn_out = NoCall
  /\ fn_out' = [fn |-> "expand_events"] @@ expand_events(fn_in.flags)
  /\ UNCHANGED <<fn_in, CACHE, getter_pc, instances, made, got>>
  /\ UNCHANGED <<ifaceVars, haltVars, cacheVars, loopVars, panelVars>>

(***************************************************************************)
(* cache() (src/nyx/__init__.py)                                           *)
(***************************************************************************)
\* "if CACHE is None:", read by thread t
cache_test(t) ==
  /\ getter_pc[t] = "idle"
  /\ getter_pc' = [getter_pc EXCEPT ![t] = IF CACHE = 0 THEN "construct" ELSE "return"]
  /\ UNCHANGED <<fn_in, fn_out, CACHE, instances, made, got>>
  /\ UNCHANGED <<ifaceVars, haltVars, cacheVars, loopVars, panelVars>>

\* "Cache()": a new Cache object, with its own connection
cache_construct(t) ==
  /\ getter_pc[t] = "construct"
  /\ instances' = instances + 1
  /\ made' = [made EXCEPT ![t] = instances + 1]
  /\ getter_pc' = [getter_pc EXCEPT ![t] = "assign"]
  /\ UNCHANGED <<fn_in, fn_out, CACHE, got>>
  /\ UNCHANGED <<ifaceVars, haltVars, cacheVars, loopVars, panelVars>>

\* "CACHE = ...": the object is stored in the global
cache_assign(t) ==
  /\ getter_pc[t] = "assign"
  /\ CACHE' = made[t]
  /\ made' = [made EXCEPT ![t] = 0]
  /\ getter_pc' = [getter_pc EXCEPT ![t] = "return"]
  /\ UNCHANGED <<fn_in, fn_out, instances, got>>
  /\ UNCHANGED <<ifaceVars, haltVars, cacheVars, loopVars, panelVars>>

\* "return CACHE"
cache_return(t) ==
  /\ getter_pc[t] = "return"
  /\ got' = [got EXCEPT ![t] = CACHE]
  /\ getter_pc' = [getter_pc EXCEPT ![t] = "idle"]
  /\ UNCHANGED <<fn_in, fn_out, CACHE, instances, made>>
  /\ UNCHANGED <<ifaceVars, haltVars, cacheVars, loopVars, panelVars>>

(***************************************************************************)
(* Specification of the Interface's paging and pausing                     *)
(***************************************************************************)
SetPageStep == \E n \in PageArgs : set_page(n) /\ UNCHANGED loopVars

SetPausedStep == \E b \in BOOLEAN : set_paused(b) /\ UNCHANGED loopVars

Init ==
  /\ \E cfg \in SUBSET ShowFlags : InterfaceInit(cfg)
  /\ HaltInit({})
  /\ CacheFresh
  /\ LoopIdle
  /\ PanelIdle
  /\ UtilIdle

Next ==
  \/ SetPageStep
  \/ SetPausedStep

Spec == Init /\ [][Next]_vars

(***************************************************************************)
(* Specification of halt and the daemon panels                             *)
(***************************************************************************)
InitHalt ==
  \E cfg \in SUBSET ShowFlags :
    /\ InterfaceInit(cfg)
    /\ \E ds \in SUBSET AllPanels(BuildPages(cfg)) :
         /\ Cardinality(ds) <= MaxDaemons
         /\ HaltInit(IF Len(BuildPages(cfg)) = 0 THEN {} ELSE ds)
    /\ CacheFresh
    /\ LoopIdle
    /\ PanelIdle
    /\ UtilIdle

NextHalt ==
  \/ halt
  \/ halt_panels_call
  \/ halt_panels_joined
  \/ halt_panels_return
  \/ PanelExitStep
  \/ wait_handle

SpecHalt == InitHalt /\ [][NextHalt]_vars

(***************************************************************************)
(* Specification of the Cache used by several threads                      *)
(***************************************************************************)
InitCache ==
  /\ IfaceIdle
  /\ CacheFresh

RecordRelayStep ==
  \E t \in Threads : \E r \in RelayInputs :
    record_relay(t, r.fingerprint, r.address, r.or_port, r.nickname)

LookupStep ==
  \E t \in Threads : \E c \in {"relay_nickname", "relay_address"} :
    \E f \in LookupInputs : lookup(t, c, f)

NextCache ==
  \/ \E t \in Threads : write_enter(t)
  \/ RecordRelayStep
  \/ \E t \in Threads : query_acquire(t)
  \/ \E t \in Threads : record_relay_execute(t)
  \/ \E t \in Threads : catch_error(t)
  \/ \E t \in Threads : write_exit_error(t)
  \/ \E t \in Threads : rollback_done(t)
  \/ \E t \in Threads : write_exit(t)
  \/ \E t \in Threads : commit_done(t)
  \/ LookupStep
  \/ \E t \in Threads : lookup_execute(t)
  \/ \E t \in Threads : lookup_return(t)

SpecCache == InitCache /\ [][NextCache]_vars

(***************************************************************************)
(* Specification of draw_loop                                              *)
(***************************************************************************)
\* configurations with 0, 1, 2, 3, 4 and 5 pages, with and without a first
\* page of two panels
LoopConfigs ==
  { {},
    {"show_log"},
    {"show_graph", "show_log", "show_connections"},
    {"show_connections", "show_config", "show_torrc"},
    {"show_graph", "show_config", "show_torrc", "show_interpreter"},
    ShowFlags }

\* draw_loop entered: nyx_interface() has constructed the Interface (the loop
\* is never entered when the constructor raises)
InitLoop ==
  /\ \E cfg \in LoopConfigs : InterfaceInit(cfg)
  /\ HaltInit({})
  /\ CacheFresh
  /\ PanelIdle
  /\ UtilIdle
  /\ confirm_quit \in BOOLEAN
  /\ loop_pc = IF constructed THEN "cond" ELSE "idle"
  /\ key = "none"
  /\ next_key = "none"
  /\ confirmation_key = "none"
  /\ exit_by = "none"
  /\ heights = <<>>
  /\ offered = <<>>

\* the steps of the thread that runs draw_loop
LoopStep ==
  \/ loop_cond
  \/ loop_redraw
  \/ loop_input
  \/ key_right
  \/ key_left
  \/ key_p
  \/ key_m
  \/ key_q
  \/ quit_confirm
  \/ key_x
  \/ key_h
  \/ key_other

NextLoop ==
  \/ LoopStep
  \/ Interface_quit

\* the loop's thread keeps running: every key wait and every prompt returns,
\* by a key or by its timeout
SpecLoop == InitLoop /\ [][NextLoop]_vars /\ WF_vars(LoopStep)

(***************************************************************************)
(* Specification of a Panel in a container that is resized                 *)
(***************************************************************************)
InitPanel ==
  /\ InterfaceInit(ShowFlags)
  /\ HaltInit({})
  /\ CacheFresh
  /\ LoopIdle
  /\ UtilIdle
  /\ \E s \in Sizes : \E h \in PrefHeights : Panel_init(s, h)

RecreateStep == \E a \in StartYArgs : \E w \in MaxXArgs : recreate(a, w)

AddstrStep == \E y \in Rows : \E x \in Cols : \E len \in MsgLens : addstr(y, x, len)

AddfstrStep == \E y \in Rows : \E x \in Cols : \E segs \in Markups : addfstr(y, x, segs)

ResizeStep == \E s \in Sizes : resize(s)

NextPanel ==
  \/ RecreateStep
  \/ clear
  \/ refresh
  \/ AddstrStep
  \/ AddfstrStep
  \/ ResizeStep

SpecPanel == InitPanel /\ [][NextPanel]_vars

(***************************************************************************)
(* Specification of draw_loop and halt with panels whose methods can raise *)
(***************************************************************************)
\* either draw_loop runs on an interface without daemon panels, or halt is
\* called on an interface with daemon panels whose draw_loop is not running
InitFail ==
  \/ InitLoop
  \/ /\ InitHalt
     /\ constructed

NextFail ==
  \/ LoopStep
  \/ loop_redraw_raises
  \/ Interface_quit
  \/ halt
  \/ halt_panels_call
  \/ halt_panels_call_raises
  \/ halt_panels_joined
  \/ halt_panels_return
  \/ PanelExitStep

SpecFail == InitFail /\ [][NextFail]_vars

(***************************************************************************)
(* Specification of the calls of Panel.addfstr with markup                 *)
(***************************************************************************)
\* the messages of up to n items
RECURSIVE MsgsUpTo(_)
MsgsUpTo(n) ==
  IF n = 0 THEN {<<>>}
  ELSE LET shorter == MsgsUpTo(n - 1) IN
       shorter \cup {Append(m, it) : m \in shorter, it \in Items}

\* "<b>hi</b> there"
BoldHiThere == <<"<b>", "c", "c", "</b>", "c", "c", "c", "c", "c", "c">>

\* "<red>a<b>b</b>c</red>d" and "a<x>b</x>"
RedBold == <<"<red>", "c", "<b>", "c", "</b>", "c", "</red>", "c">>

UnknownTags == <<"c", "<x>", "c", "</x>">>

\* a window too narrow for most messages, and one wide enough for all
Widths == {3, 40}

\* everything but the function that is called is idle
FnInit ==
  /\ InterfaceInit(ShowFlags)
  /\ HaltInit({})
  /\ CacheFresh
  /\ LoopIdle
  /\ PanelIdle
  /\ GetterIdle
  /\ fn_out = NoCall

InitMarkup ==
  /\ FnInit
  /\ \E m \in MsgsUpTo(MaxMsg) \cup {BoldHiThere, RedBold, UnknownTags} : \E x \in {0, 1} : \E w \in Widths :
       fn_in = [fn |-> "addfstr", y |-> 0, x |-> x, msg |-> m, maxX |-> w]

NextMarkup == addfstr_markup

SpecMarkup == InitMarkup /\ [][NextMarkup]_vars

(***************************************************************************)
(* Specification of the calls of getSizeLabel                              *)
(***************************************************************************)
\* byte counts at, just below and just above the multiples of each unit, some
\* in between, and the largest of 32 bits
ByteCounts ==
  {b \in {m * u + d : m \in 0 .. MaxMultiple, u \in {1, 1024, 1048576}, d \in {0 - 1, 0, 1}} :
     b >= 0}
  \cup {1536, 7500, 1572864, 1073741823, 1073741824, 1073741825, 1610612736, 2147483647}

InitSizeLabel ==
  /\ FnInit
  /\ \E b \in ByteCounts : fn_in = [fn |-> "getSizeLabel", bytes |-> b]

NextSizeLabel == size_label

SpecSizeLabel == InitSizeLabel /\ [][NextSizeLabel]_vars

(***************************************************************************)
(* Specification of the calls of join                                      *)
(***************************************************************************)
\* the lists of up to n entries
RECURSIVE EntriesUpTo(_)
EntriesUpTo(n) ==
  IF n = 0 THEN {<<>>}
  ELSE LET shorter == EntriesUpTo(n - 1) IN
       shorter \cup {Append(es, e) : es \in shorter, e \in {<<>>, <<"a">>, <<"b", "b">>}}

Joiners == {<<>>, <<" ">>, <<"-", "-">>}

\* ['This', 'is', 'a', 'looooong', 'message']
ThisIsA ==
  << <<"T", "h", "i", "s">>, <<"i", "s">>, <<"a">>,
     <<"l", "o", "o", "o", "o", "o", "n", "g">>, <<"m", "e", "s", "s", "a", "g", "e">> >>

InitJoin ==
  /\ FnInit
  /\ \/ \E es \in EntriesUpTo(MaxEntries) : \E j \in Joiners : \E lim \in BOOLEAN :
          \E n \in 0 .. MaxSize :
            /\ ~lim => n = 0
            /\ fn_in = [fn |-> "join", entries |-> es, joiner |-> j, limited |-> lim, size |-> n]
     \/ \E n \in {2, 17, 18} :
          fn_in = [fn |-> "join", entries |-> ThisIsA, joiner |-> <<" ">>,
                   limited |-> TRUE, size |-> n]

NextJoin == join_call

SpecJoin == InitJoin /\ [][NextJoin]_vars

(***************************************************************************)
(* Specification of the calls of expand_events                             *)
(***************************************************************************)
\* the flags of the inputs: aliases, runlevels, event flags, and two
\* characters that are no flag
InputFlags == {"A", "X", "U", "N", "4", "n", "c", "f", "?", "Z"}

RECURSIVE FlagsUpTo(_)
FlagsUpTo(n) ==
  IF n = 0 THEN {<<>>}
  ELSE LET shorter == FlagsUpTo(n - 1) IN
       shorter \cup {Append(fs, f) : fs \in shorter, f \in InputFlags}

InitExpand ==
  /\ FnInit
  /\ \E fs \in FlagsUpTo(MaxFlags) : fn_in = [fn |-> "expand_events", flags |-> fs]

NextExpand == expand_events_call

SpecExpand == InitExpand /\ [][NextExpand]_vars

(***************************************************************************)
(* Specification of threads that call cache()                              *)
(***************************************************************************)
InitGetter ==
  /\ InterfaceInit(ShowFlags)
  /\ HaltInit({})
  /\ CacheFresh
  /\ LoopIdle
  /\ PanelIdle
  /\ UtilIdle

NextGetter ==
  \E t \in Getters :
    \/ cache_test(t)
    \/ cache_construct(t)
    \/ cache_assign(t)
    \/ cache_return(t)

SpecGetter == InitGetter /\ [][NextGetter]_vars

(***************************************************************************)
(* Properties of paging and pausing (checked under Spec)                   *)
(***************************************************************************)
\* the number of entries of the call log s that are method m on panel p
Count(s, m, p) == Cardinality({i \in DOMAIN s : s[i].method = m /\ s[i].panel = p})

\* C1: set_page(p) with 0 <= p < page_count() makes get_page() return p;
\* set_page(p) with p < 0 or p >= page_count() raises ValueError and leaves the
\* current page and every visibility flag as they were, with no call made on
\* any panel (so no header redraw).
C1_SetPageRoundTrip ==
  lastOp.op = "set_page" =>
    IF 0 <= lastOp.n /\ lastOp.n < page_count
      THEN lastOp.raised = "none" /\ get_page = lastOp.n
      ELSE /\ lastOp.raised = "ValueError"
           /\ get_page = lastOp.pre_page
           /\ visible = lastOp.pre_visible
           /\ calls = <<>>

\* a rejected set_page on an interface that an earlier set_page moved off page 0
C1_Witness ==
  /\ lastOp.op = "set_page"
  /\ lastOp.raised = "ValueError"
  /\ lastOp.n >= page_count
  /\ lastOp.pre_page > 0

\* C2: a set_paused(v) that changes the flag sets it, calls set_paused(v) once
\* on every panel of the interface (header and all pages) and then redraw() on
\* each panel of the active page in order; a set_paused(v) that does not
\* change the flag calls nothing; two set_paused(True) in a row on an unpaused
\* interface give every panel exactly one set_paused call in total.
C2_SetPausedPropagation ==
  /\ lastOp.op = "set_paused" =>
       IF lastOp.b # lastOp.pre_paused
         THEN LET n   == Len(Iter(page_panels))
                  act == PanelsOfPage(page_panels, page) IN
              /\ is_paused = lastOp.b
              /\ Len(calls) = n + Len(act)
              /\ \A i \in 1 .. n : calls[i].method = "set_paused" /\ calls[i].flag = lastOp.b
              /\ \A p \in AllPanels(page_panels) : Count(calls, "set_paused", p) = 1
              /\ \A j \in 1 .. Len(act) : calls[n + j] = Call(act[j], "redraw", FALSE)
         ELSE is_paused = lastOp.pre_paused /\ calls = <<>>
  /\ ( /\ lastOp.op = "set_paused" /\ lastOp.b
       /\ prevOp.op = "set_paused" /\ prevOp.b /\ ~prevOp.pre_paused )
       => \A p \in AllPanels(page_panels) :
            Count(prevOp.paused_calls, "set_paused", p) + Count(calls, "set_paused", p) = 1

\* the second of two consecutive set_paused(True) calls on an unpaused interface
C2_Witness ==
  /\ lastOp.op = "set_paused" /\ lastOp.b
  /\ prevOp.op = "set_paused" /\ prevOp.b /\ ~prevOp.pre_paused
  /\ page_count >= 2

\* C10: once constructed, a panel's visibility flag is true exactly when it is
\* the header or on the current page, and exactly one page is active (shows
\* all its panels); a set_page to another valid page redraws the header once,
\* as its first call, and only then gives every panel its set_visible call.
C10_VisibilityConsistent ==
  constructed =>
    /\ \A p \in AllPanels(page_panels) :
         visible[p] <=> (p = "header" \/ \E i \in DOMAIN page_panels[page + 1] :
                                            page_panels[page + 1][i] = p)
    /\ {n \in 0 .. page_count - 1 :
          \A i \in DOMAIN page_panels[n + 1] : visible[page_panels[n + 1][i]]} = {page}
    /\ (lastOp.op = "set_page" /\ lastOp.raised = "none" /\ lastOp.n # lastOp.pre_page) =>
         /\ Len(calls) >= 1
         /\ calls[1] = Call("header", "redraw", FALSE)
         /\ \A i \in 2 .. Len(calls) : calls[i].method = "set_visible"
         /\ \A p \in AllPanels(page_panels) : Count(calls, "set_visible", p) = 1

\* a set_page that moved from one page to another, not the first one
C10_Witness ==
  /\ constructed
  /\ lastOp.op = "set_page" /\ lastOp.raised = "none"
  /\ lastOp.n # lastOp.pre_page
  /\ lastOp.pre_page > 0

(***************************************************************************)
(* Properties of halt (checked under SpecHalt)                             *)
(***************************************************************************)
\* C3: the halt thread calls stop() at most once and join() at most once on a
\* panel, only on daemon panels, every stop() before any join(); once the
\* thread has finished it has called stop() and join() exactly once on every
\* daemon panel.
C3_StopAllThenJoinAll ==
  /\ \A i \in DOMAIN halt_log : halt_log[i].panel \in daemons
  /\ \A p \in daemons : Count(halt_log, "stop", p) <= 1 /\ Count(halt_log, "join", p) <= 1
  /\ \A i, j \in DOMAIN halt_log :
       (halt_log[i].method = "stop" /\ halt_log[j].method = "join") => i < j
  /\ worker_state = "finished" =>
       \A p \in daemons : Count(halt_log, "stop", p) = 1 /\ Count(halt_log, "join", p) = 1

\* the halt thread finished on an interface with several daemon panels
C3_Witness ==
  /\ worker_state = "finished"
  /\ Cardinality(daemons) >= 2
  /\ Len(halt_log) = 2 * Cardinality(daemons)

\* C4: every stop() and join() is made by the halt thread, never by the
\* caller of halt(); when halt() returned no daemon panel had been stopped,
\* joined or had exited, so the caller waited for none of them.
C4_HaltDoesNotBlock ==
  /\ \A i \in DOMAIN halt_log : halt_log[i].ctx = "worker"
  /\ caller # "idle" => (at_return.running = started /\ at_return.log = <<>>)

\* halt() has returned while a daemon panel's loop is still running
C4_Witness ==
  /\ caller = "returned"
  /\ worker_state # "finished"
  /\ running # {}
  /\ stop_requested # {}

(***************************************************************************)
(* Properties of the Cache (checked under SpecCache and SpecCacheInit)     *)
(***************************************************************************)
\* the first field, in the order fingerprint, nickname, address, port, that
\* is invalid in the arguments r, or "none"
FirstInvalid(r) ==
  IF ~(r.fingerprint.len = 40 /\ r.fingerprint.hex) THEN "fingerprint"
  ELSE IF ~(r.nickname.len \in 1 .. 19 /\ r.nickname.alnum) THEN "nickname"
  ELSE IF ~(r.address.family \in {"ipv4", "ipv6"} /\ r.address.wellformed) THEN "address"
  ELSE IF ~(r.or_port \in 1 .. 65535) THEN "port"
  ELSE "none"

\* C5: record_relay raises a ValueError naming the first invalid field in the
\* order fingerprint, nickname, address, port; when it raises it has entered
\* no _query (the lock is untouched, the scope has written nothing more) and
\* table relays is as it was; with four valid fields it goes on to the INSERT.
C5_ValidationOrder ==
  [][\A t \in Threads : \A r \in RelayInputs :
       record_relay(t, r.fingerprint, r.address, r.or_port, r.nickname) =>
         /\ err'[t] = FirstInvalid(r)
         /\ FirstInvalid(r) # "none" =>
              /\ pc'[t] = "raised"
              /\ UNCHANGED <<relays_working, relays_committed, conn_lock, scope_muts>>
         /\ FirstInvalid(r) = "none" => pc'[t] = "rec_lock"]_vars

\* a record_relay that failed on its nickname in a scope that had written a row
C5_Witness ==
  \E t \in Threads :
    /\ pc[t] = "raised"
    /\ err[t] = "nickname"
    /\ scope_muts[t] # {}

\* what a lookup is to return when h holds the row recorded for the
\* fingerprint (or nothing): the nickname, or the address and port, or the default
ValuesOf(call, h) ==
  IF h = {} THEN [default |-> TRUE, value |-> NoRow]
  ELSE LET r == CHOOSE x \in h : TRUE IN
       IF call = "relay_nickname"
         THEN [default |-> FALSE, value |-> [NoRow EXCEPT !.nickname = r.nickname]]
         ELSE [default |-> FALSE,
               value |-> [NoRow EXCEPT !.address = r.address, !.or_port = r.or_port]]

RelaysUnique(table) ==
  \A f \in Fingerprints : Cardinality({r \in table : r.fingerprint = f}) <= 1

\* C6 as amended: table relays never holds two rows with one fingerprint, and
\* a lookup returns, of the successful record_relay calls for the fingerprint
\* that no rollback has undone when its SELECT runs, the values of the last
\* one, and the default when there is none.
C6_LookupReturnsKept ==
  /\ [](RelaysUnique(relays_working) /\ RelaysUnique(relays_committed))
  /\ [][\A t \in Threads :
          (pc[t] = "q_exec" /\ pc'[t] = "fetch") =>
            LookupReturn(args[t].call, cursor'[t])
              = ValuesOf(args[t].call, kept[args[t].row.fingerprint])]_vars

\* a lookup that finds the second record of a fingerprint, the first one committed
C6_Witness ==
  \E t \in Threads :
    /\ pc[t] = "fetch"
    /\ cursor[t] = {Row(F1, A6, 9001, N2)}
    /\ Row(F1, A4, 9001, N1) \in relays_committed

\* C6 as claimed: a lookup returns the values of the last record_relay for the
\* fingerprint that returned normally, and the default when there is none.
C6_LookupReturnsLastOk ==
  [][\A t \in Threads :
       (pc[t] = "q_exec" /\ pc'[t] = "fetch") =>
         LookupReturn(args[t].call, cursor'[t])
           = ValuesOf(args[t].call, last_ok[args[t].row.fingerprint])]_vars

\* table relays with the rows in muts (one per fingerprint) written over it
WithRows(table, muts) ==
  {r \in table : \A m \in muts : m.fingerprint # r.fingerprint} \cup muts

\* C7: when a write() scope ends normally, what gets committed is the rows of
\* that scope, all of them and nothing another scope has written; when it
\* ends with an error nothing gets committed and none of its rows stays in
\* the store (unless committed already).
C7_ScopeAtomicAndExclusive ==
  [][\A t \in Threads :
       /\ (pc[t] = "commit" /\ pc'[t] = "idle") =>
            relays_committed' = WithRows(relays_committed, scope_muts[t])
       /\ (pc[t] = "rollback" /\ pc'[t] = "idle") =>
            /\ relays_committed' = relays_committed
            /\ \A m \in scope_muts[t] : m \in relays_working' => m \in relays_committed]_vars

\* C8: at most one thread is inside a call on the connection, and a thread
\* that is inside one owns the lock.
C8_ConnectionSerialized ==
  /\ Cardinality({t \in Threads : OnConnection(t)}) <= 1
  /\ \A t \in Threads : OnConnection(t) => conn_lock = t

\* C9: Cache.__init__ never raises; the store it leaves holds the schema with
\* version SCHEMA_VERSION, and the stored relays when the stored version
\* could be read and matched, and no relays otherwise.
C9_ConstructionNeverAborts ==
  /\ cache_state # "aborted"
  /\ cache_state = "ready" =>
       /\ schema_version = SCHEMA_VERSION
       /\ relays_working =
            (IF env.data_dir = "ok" /\ env.connect_ok /\ env.stored = "version"
                  /\ env.version = SCHEMA_VERSION
               THEN env.stored_relays ELSE {})

(***************************************************************************)
(* Properties of the Interface's page index (checked under Spec)           *)
(***************************************************************************)
\* C11: in every state of an Interface, right after __init__ included and
\* whatever pages CONFIG enables, 0 <= get_page() < page_count(), __init__
\* has returned normally, and the current page is one of the pages (so that
\* page_panels() for it is defined).
C11_PageIndexInRange ==
  /\ 0 <= get_page
  /\ get_page < page_count
  /\ constructed
  /\ get_page + 1 \in DOMAIN page_panels

(***************************************************************************)
(* Properties of redraw and of draw_loop (checked under SpecLoop)          *)
(***************************************************************************)
\* the sum of the first n entries of h
RECURSIVE SumTo(_, _)
SumTo(h, n) == IF n = 0 THEN 0 ELSE h[n] + SumTo(h, n - 1)

\* C12: Interface.redraw() calls redraw once on the header and then once on
\* each panel of the active page in page order, and on no other panel; the
\* top it passes is the sum of the heights of the panels drawn before (0 for
\* the header), so each panel starts where the one above it ends.
C12_RedrawStacks ==
  lastOp.op = "redraw" =>
    LET act == PanelsOfPage(page_panels, page) IN
    /\ Len(calls) = Len(act)
    /\ calls[1].panel = "header" /\ calls[1].top = 0
    /\ \A i \in DOMAIN calls :
         /\ calls[i].panel = act[i]
         /\ calls[i].method = "redraw"
         /\ calls[i].top = SumTo(heights, i - 1)
    /\ \A i \in DOMAIN calls :
         i < Len(calls) => calls[i + 1].top = calls[i].top + heights[i]
    /\ \A p \in AllPanels(page_panels) :
         Count(calls, "redraw", p) = IF p \in Range(act) THEN 1 ELSE 0

\* a redraw of a page of two panels under the header, of different heights
C12_Witness ==
  /\ lastOp.op = "redraw"
  /\ Len(calls) = 3
  /\ heights[1] = 2 /\ heights[2] = 1
  /\ calls[3].top = 3
  /\ page_count > 1

\* the place of panel p in the sequence ps (0 when it is not in it)
IndexOf(ps, p) == IF \E i \in DOMAIN ps : ps[i] = p
                    THEN CHOOSE i \in DOMAIN ps : ps[i] = p ELSE 0

\* C13: a key the loop does not handle itself goes to handlers of panels of
\* the active page only, in page order with the header first, and no handler
\* is given the key after a handler has consumed it.
C13_OfferStopsAtConsumer ==
  LET act == PanelsOfPage(page_panels, page) IN
  /\ \A i \in DOMAIN offered : offered[i].panel \in Range(act)
  /\ \A i, j \in DOMAIN offered :
       i < j => IndexOf(act, offered[i].panel) <= IndexOf(act, offered[j].panel)
  /\ \A i, j \in DOMAIN offered : (i < j /\ offered[i].consumed) => FALSE

\* a quit prompt that ends without the confirming key: the loop goes back to
\* its condition with the page, the paused flag and the quit flag as they were
QuitAbandoned ==
  (loop_pc = "confirm" /\ loop_pc' # "confirm" /\ confirmation_key' # "q") =>
     /\ loop_pc' = "cond"
     /\ UNCHANGED <<page, paused, quit, exit_by>>

\* C14 as amended: with CONFIG['confirm_quit'] set the loop is left by break
\* only when the quit key was followed by a second quit key from the prompt,
\* and a prompt that ends otherwise (another key, or its timeout) leaves the
\* loop running with page, paused and quit flag unchanged; with confirm_quit
\* not set a single quit key breaks the loop.
C14_QuitNeedsConfirmation ==
  /\ [](exit_by = "break" =>
          key = "q" /\ (confirm_quit => confirmation_key = "q"))
  /\ [][QuitAbandoned]_vars
  /\ [][(loop_pc = "dispatch" /\ key = "q" /\ ~confirm_quit /\ loop_pc' # loop_pc) =>
          (loop_pc' = "exited" /\ exit_by' = "break")]_vars

\* a quit abandoned by the prompt's timeout, on a paused interface off page 0
C14_Witness ==
  /\ loop_pc = "cond"
  /\ key = "q"
  /\ confirmation_key = "timeout"
  /\ paused
  /\ page > 0

\* C14 as claimed: the loop is left by break only when the quit key was
\* followed by a second quit key from the prompt.
C14_QuitAlwaysConfirmed ==
  /\ [](exit_by = "break" => key = "q" /\ confirmation_key = "q")
  /\ [][QuitAbandoned]_vars

\* C15: in the loop a right key moves from page p to p + 1, and from the last
\* page to page 0; a left key moves from p to p - 1, and from page 0 to the
\* last page; set_page accepts the page number it is given.
C15_LeftRightWrap ==
  lastOp.op = "set_page" =>
    LET p == lastOp.pre_page
        n == page_count IN
    /\ key \in {"right", "left"}
    /\ lastOp.raised = "none"
    /\ 0 <= lastOp.n /\ lastOp.n < n
    /\ key = "right" => page = (IF p = n - 1 THEN 0 ELSE p + 1)
    /\ key = "left" => page = (IF p = 0 THEN n - 1 ELSE p - 1)

\* a left key on page 0 of an interface of at least three pages
C15_Witness ==
  /\ lastOp.op = "set_page"
  /\ key = "left"
  /\ lastOp.pre_page = 0
  /\ page = page_count - 1
  /\ page_count >= 3

\* C16: the quit flag, once set, stays set; the loop that finds it set when
\* it evaluates its condition exits, and an exited loop redraws nothing and
\* waits for no key any more; once the flag is set the loop does exit.
C16_QuitFlagEndsLoop ==
  /\ [][quit => quit']_vars
  /\ [][(loop_pc = "cond" /\ quit /\ loop_pc' # loop_pc) => loop_pc' = "exited"]_vars
  /\ [][loop_pc = "exited" =>
          (loop_pc' = "exited" /\ UNCHANGED <<calls, lastOp, key, heights>>)]_vars
  /\ (quit ~> (loop_pc = "exited"))

\* the loop left through its condition while a key from the help popup was pending
C16_Witness ==
  /\ loop_pc = "exited"
  /\ exit_by = "flag"
  /\ quit
  /\ next_key # "none"

(***************************************************************************)
(* Properties of the Panel (checked under SpecPanel)                       *)
(***************************************************************************)
\* C17 as amended: recreate with a startY greater than the container's
\* height, on a Panel that has a window, returns False and keeps the window,
\* startY and isDisplaced, and leaves maxY and maxX at the window's size; on
\* a Panel without a window it creates the window in the container's last
\* row, sets startY to the startY asked for and returns True.
C17_RecreateOutOfBounds ==
  (panel_op.op = "recreate" /\ panel_op.a1 > scr.y) =>
    IF panel_op.pre.win # NoWin
      THEN /\ ~panel_op.ret
           /\ win = panel_op.pre.win
           /\ startY = panel_op.pre.startY
           /\ isDisplaced = panel_op.pre.isDisplaced
           /\ maxY = win.height /\ maxX = win.width
      ELSE /\ panel_op.ret
           /\ win # NoWin /\ win.top = scr.y - 1
           /\ startY = panel_op.a1
           /\ isDisplaced = panel_op.pre.isDisplaced
           /\ maxY = 0 - 1 /\ maxX = 0 - 1

\* a rejected recreate that found bounds other than the window's size
C17_Witness ==
  /\ panel_op.op = "recreate"
  /\ panel_op.a1 > scr.y
  /\ panel_op.pre.win # NoWin
  /\ ~panel_op.ret
  /\ panel_op.pre.maxY # maxY

\* C17 as claimed: recreate with a startY greater than the container's height
\* returns False and leaves the window, startY, isDisplaced, maxY and maxX as
\* they were, with or without a window.
C17_RecreateRejectsAlways ==
  (panel_op.op = "recreate" /\ panel_op.a1 > scr.y) =>
    /\ ~panel_op.ret
    /\ PanelState = panel_op.pre

\* C18: a recreate that makes a window for a startY that is not a row of the
\* container puts the window in the container's last row, keeps the startY
\* asked for as Panel.startY, and has isDisplaced set when it returns.
C18_DisplacedMarkedAtReturn ==
  (panel_op.op = "recreate" /\ panel_op.ret /\ panel_op.a1 > scr.y - 1) =>
    /\ win # NoWin
    /\ getparyx0(win) = scr.y - 1
    /\ startY = panel_op.a1
    /\ startY # getparyx0(win)
    /\ isDisplaced

\* C19: clear, refresh, addstr and addfstr call erase, refresh or addstr only
\* on a window whose actual top is Panel.startY.
C19_DisplacedNeverTouched ==
  panel_op.wcalls # <<>> =>
    /\ win # NoWin
    /\ getparyx0(win) = startY

\* C20: every addstr that Panel.addstr or Panel.addfstr makes on the window
\* has 0 <= row < maxY, 0 <= col < maxX and a text of at most maxX - col - 1
\* characters; a call with a row or column outside these bounds, or on a
\* Panel without a window, makes none and nothing is raised.
C20_WritesInsideBounds ==
  panel_op.op \in {"addstr", "addfstr"} =>
    /\ \A i \in DOMAIN panel_op.wcalls :
         LET c == panel_op.wcalls[i] IN
         /\ 0 <= c.row /\ c.row < maxY
         /\ 0 <= c.col /\ c.col < maxX
         /\ c.len <= maxX - c.col - 1
    /\ ( \/ win = NoWin
         \/ panel_op.a1 < 0 \/ panel_op.a1 >= maxY
         \/ panel_op.a2 < 0 \/ panel_op.a2 >= maxX )
         => (panel_op.wcalls = <<>> /\ ~panel_op.raised)

(***************************************************************************)
(* Properties of markup (checked under SpecMarkup)                         *)
(***************************************************************************)
\* the message m is properly nested when read with the tags of stack open:
\* no tag is opened inside itself, every close is of the innermost open tag,
\* and every tag is closed at the end
RECURSIVE WellNested(_, _)
WellNested(m, stack) ==
  IF m = <<>> THEN stack = <<>>
  ELSE LET it == Head(m) IN
       IF it \in {"<b>", "<u>", "<h>", "<red>"}
         THEN /\ \A i \in DOMAIN stack : stack[i] # it
              /\ WellNested(Tail(m), Append(stack, it))
       ELSE IF it \in {"</b>", "</u>", "</h>", "</red>"}
         THEN /\ stack # <<>>
              /\ stack[Len(stack)] = OpenOf(it)
              /\ WellNested(Tail(m), SubSeq(stack, 1, Len(stack) - 1))
       ELSE WellNested(Tail(m), stack)

\* the runs of text of m between its recognized tags: for each the number of
\* characters of text before it, its length and the set of tags open in it
\* (before characters seen so far, of which len in the current run)
RECURSIVE Runs(_, _, _, _)
Runs(m, before, len, open) ==
  IF m = <<>>
    THEN IF len > 0 THEN <<[before |-> before, len |-> len, open |-> open]>> ELSE <<>>
  ELSE LET it == Head(m) IN
       IF it \in {"<b>", "<u>", "<h>", "<red>"}
         THEN <<[before |-> before, len |-> len, open |-> open]>>
                \o Runs(Tail(m), before + len, 0, open \cup {it})
       ELSE IF it \in {"</b>", "</u>", "</h>", "</red>"}
         THEN <<[before |-> before, len |-> len, open |-> open]>>
                \o Runs(Tail(m), before + len, 0, open \ {OpenOf(it)})
       ELSE Runs(Tail(m), before, len + ItemLen(it), open)

\* the bits of bold, underline and highlight of the tags of open (a color
\* has none before initColors())
BitsOf(open) ==
  {b \in {"A_BOLD", "A_UNDERLINE", "A_STANDOUT"} :
     \/ b = "A_BOLD" /\ "<b>" \in open
     \/ b = "A_UNDERLINE" /\ "<u>" \in open
     \/ b = "A_STANDOUT" /\ "<h>" \in open}

\* C21: on a properly nested message with no tag nested in itself, addfstr
\* writes the runs of text between recognized tags in order, each at column
\* start + (characters of text before it) with the union of the attributes of
\* exactly the tags open in it and one stack entry per open tag, an
\* unrecognized tag counting as text; a run is cut to the first
\* maxX - column - 1 of its characters, and the runs from the first one whose
\* column is not left of maxX are not written; when all are written the stack
\* is back at its initial depth; "<b>hi</b> there" at column 0 of a wide
\* window writes "hi" bold at column 0 and " there" plain at column 2.
C21_MarkupRuns ==
  /\ (fn_out.fn = "addfstr" /\ WellNested(fn_in.msg, <<>>)) =>
       LET runs == Runs(fn_in.msg, 0, 0, {})
           shown == Cardinality({i \in DOMAIN runs : fn_in.x + runs[i].before < fn_in.maxX})
           ws == fn_out.writes IN
       /\ Len(ws) = shown
       /\ \A i \in 1 .. shown :
            /\ ws[i].col = fn_in.x + runs[i].before
            /\ ws[i].len = Min(runs[i].len, fn_in.maxX - ws[i].col - 1)
            /\ ws[i].attr = BitsOf(runs[i].open)
            /\ ws[i].depth = 1 + Cardinality(runs[i].open)
       /\ shown = Len(runs) => fn_out.depth = 1
  /\ (fn_out.fn = "addfstr" /\ fn_in.msg = BoldHiThere /\ fn_in.x = 0 /\ fn_in.maxX = 40) =>
       fn_out.writes = <<AttrCall(0, 0, 0, {}, 1), AttrCall(0, 0, 2, {"A_BOLD"}, 2),
                         AttrCall(0, 2, 6, {}, 1)>>

\* "<b>hi</b> there" was written at column 0 of a window 40 columns wide
C21_Witness ==
  /\ fn_out.fn = "addfstr"
  /\ fn_in.msg = BoldHiThere /\ fn_in.x = 0 /\ fn_in.maxX = 40
  /\ Len(fn_out.writes) = 3
  /\ fn_out.writes[2].attr = {"A_BOLD"} /\ fn_out.writes[2].len = 2

\* C21 as stated: every run is written, and written whole
C21_EveryRunWhole ==
  (fn_out.fn = "addfstr" /\ WellNested(fn_in.msg, <<>>)) =>
    LET runs == Runs(fn_in.msg, 0, 0, {})
        ws == fn_out.writes IN
    /\ Len(ws) = Len(runs)
    /\ \A i \in DOMAIN runs :
         /\ ws[i].col = fn_in.x + runs[i].before
         /\ ws[i].len = runs[i].len
         /\ ws[i].attr = BitsOf(runs[i].open)
    /\ fn_out.depth = 1

(***************************************************************************)
(* Properties of failing panels (checked under SpecFail)                   *)
(***************************************************************************)
\* C22: when the redraw of one panel raises during Interface.redraw, every
\* panel of the page has still been given its redraw call and draw_loop has
\* not been ended by the exception; when a stop() or join() raises in the
\* halt thread, every other daemon panel has still been given its stop() and
\* its join().
C22_FailureIsolated ==
  /\ (lastOp.op = "redraw" /\ lastOp.raised = "Exception") =>
       /\ Len(calls) = Len(PanelsOfPage(page_panels, page))
       /\ loop_pc # "crashed"
  /\ worker_state = "failed" =>
       \A p \in daemons \ {halt_log[Len(halt_log)].panel} :
         Count(halt_log, "stop", p) = 1 /\ Count(halt_log, "join", p) = 1

(***************************************************************************)
(* Properties of getSizeLabel (checked under SpecSizeLabel)                *)
(***************************************************************************)
\* the number that the decimal digits ds write
RECURSIVE Value(_)
Value(ds) ==
  IF ds = <<>> THEN 0 ELSE 10 * Value(SubSeq(ds, 1, Len(ds) - 1)) + ds[Len(ds)]

\* v is the floor of b / unit
IsFloor(v, b, unit) == v * unit <= b /\ b - v * unit < unit

\* C23: for a byte count b >= 0 the label is the decimal number floor(b /
\* 1024^3) and " GB" when b >= 1024^3, else floor(b / 1024^2) and " MB" when
\* b >= 1024^2, else floor(b / 1024) and " KB" when b >= 1024, else b and
\* " bytes"; 0 gives "0 bytes", 1023 "1023 bytes", 1024 "1 KB", 1048576 "1 MB"
\* and 1073741824 "1 GB".
C23_SizeLabelTruncates ==
  fn_out.fn = "getSizeLabel" =>
    LET b == fn_in.bytes
        ds == fn_out.label.digits
        v == Value(ds) IN
    /\ \A i \in DOMAIN ds : ds[i] \in 0 .. 9
    /\ Len(ds) >= 1 /\ (Len(ds) > 1 => ds[1] # 0)
    /\ IF b >= 1073741824 THEN fn_out.label.suffix = " GB" /\ v <= 1 /\ IsFloor(v, b, 1073741824)
       ELSE IF b >= 1048576 THEN fn_out.label.suffix = " MB" /\ v <= 1023 /\ IsFloor(v, b, 1048576)
       ELSE IF b >= 1024 THEN fn_out.label.suffix = " KB" /\ v <= 1023 /\ IsFloor(v, b, 1024)
       ELSE fn_out.label.suffix = " bytes" /\ v = b
    /\ b = 0 => fn_out.label = [digits |-> <<0>>, suffix |-> " bytes"]
    /\ b = 1023 => fn_out.label = [digits |-> <<1, 0, 2, 3>>, suffix |-> " bytes"]
    /\ b = 1024 => fn_out.label = [digits |-> <<1>>, suffix |-> " KB"]
    /\ b = 1048576 => fn_out.label = [digits |-> <<1>>, suffix |-> " MB"]
    /\ b = 1073741824 => fn_out.label = [digits |-> <<1>>, suffix |-> " GB"]

\* a byte count half a unit above a multiple was labelled with the multiple
C23_Witness ==
  /\ fn_out.fn = "getSizeLabel"
  /\ fn_in.bytes = 1610612736
  /\ fn_out.label = [digits |-> <<1>>, suffix |-> " GB"]

(***************************************************************************)
(* Properties of join (checked under SpecJoin)                             *)
(***************************************************************************)
\* the length of the str.join of the first k of the entries es
JoinedLen(j, es, k) == Len(StrJoin(j, SubSeq(es, 1, k)))

\* C24: with a size limit, join returns the str.join of the longest prefix of
\* the entries whose joined length is at most the limit (the empty string
\* when not even the first entry fits), so the result is never longer than
\* the limit and is the str.join of all entries whenever that fits.
C24_JoinLongestPrefix ==
  (fn_out.fn = "join" /\ fn_in.limited) =>
    LET es == fn_in.entries
        j == fn_in.joiner
        fits == {k \in 0 .. Len(es) : \A i \in 1 .. k : JoinedLen(j, es, i) <= fn_in.size}
        longest == CHOOSE k \in fits : \A i \in fits : i <= k IN
    /\ fn_out.result = StrJoin(j, SubSeq(es, 1, longest))
    /\ Len(fn_out.result) <= fn_in.size
    /\ JoinedLen(j, es, Len(es)) <= fn_in.size => fn_out.result = StrJoin(j, es)

(***************************************************************************)
(* Properties of expand_events (checked under SpecExpand)                  *)
(***************************************************************************)
\* the names of events, and the characters that are flags
EventNames ==
  {TOR_EVENT_TYPES[f] : f \in DOMAIN TOR_EVENT_TYPES}
    \cup Range(TOR_RUNLEVELS) \cup Range(NYX_RUNLEVELS) \cup {"UNKNOWN"}

Recognized ==
  DOMAIN TOR_EVENT_TYPES
    \cup {"A", "X", "U", "D", "I", "N", "W", "E", "1", "2", "3", "4", "5"}

\* C25: every element of a set that expand_events returns is the name of an
\* event, never a flag; "A" gives every event type of TOR_EVENT_TYPES, every
\* nyx runlevel and "UNKNOWN"; "X" gives the empty set; flags with a
\* character that is no flag make the call raise ValueError.
C25_ExpandsToEventNames ==
  fn_out.fn = "expand_events" =>
    /\ fn_out.raised = "none" => fn_out.events \subseteq EventNames
    /\ fn_in.flags = <<"A">> =>
         /\ fn_out.raised = "none"
         /\ fn_out.events = {TOR_EVENT_TYPES[f] : f \in DOMAIN TOR_EVENT_TYPES}
                              \cup Range(NYX_RUNLEVELS) \cup {"UNKNOWN"}
    /\ fn_in.flags = <<"X">> => (fn_out.raised = "none" /\ fn_out.events = {})
    /\ (\E i \in DOMAIN fn_in.flags : fn_in.flags[i] \notin Recognized) =>
         fn_out.raised = "ValueError"

(***************************************************************************)
(* Properties of repeated layout (checked under SpecPanel)                 *)
(***************************************************************************)
\* C26: a recreate that directly follows a recreate with the same top and
\* the same width limit, on a Panel that is not displaced (the container has
\* not been resized in between), replaces no window and returns False,
\* whatever the container size, the preferred height and the width limit.
C26_RecreateIdempotent ==
  [][\A a \in StartYArgs : \A w \in MaxXArgs :
       ( /\ panel_op.op = "recreate" /\ panel_op.a1 = a /\ panel_op.a2 = w
         /\ ~isDisplaced
         /\ recreate(a, w) )
       => (~panel_op'.ret /\ win' = win)]_vars

(***************************************************************************)
(* Properties of cache() (checked under SpecGetter)                        *)
(***************************************************************************)
\* C27: at most one Cache object (and so one connection) is ever constructed,
\* and every call of cache() that has returned has returned the same object,
\* also when threads make their first calls at the same time.
C27_CacheSingleton ==
  /\ instances <= 1
  /\ \A t \in Getters : \A u \in Getters :
       (got[t] # 0 /\ got[u] # 0) => got[t] = got[u]

====
